---- MODULE Spec2Model ----
(***************************************************************************)
(* robloxgo: the authenticated transport (Create, RoundTrip, get, post,    *)
(* patch, delete, newHttpRequest, httpErrorCheck), the input validation of *)
(* the public operations and the paginated listings GetMembers / GetRoles. *)
(*                                                                         *)
(* Texts (error messages, status lines) are sequences of string tokens in  *)
(* the order fmt writes them; "the message contains t" is "t is one of its *)
(* tokens".  An HTTP answer is chosen by the environment at the moment the *)
(* request reaches the underlying transport.                               *)
(***************************************************************************)
EXTENDS Integers, Sequences, FiniteSets, TLC

VARIABLES client, call, ret, sent, pg, gor

vars == <<client, call, ret, sent, pg, gor>>

(***************************************************************************)
(* Bounds of the model.                                                    *)
(***************************************************************************)
MaxParams == 2
MaxHeaders == 1
MaxItems == 2
MaxPageReqs == 3
MaxDelay == 1
NumGoroutines == 2
MaxJoinRequests == 2

(***************************************************************************)
(* Values.                                                                 *)
(***************************************************************************)
NilErr == [nil |-> TRUE, msg |-> <<>>]

Err(tokens) == [nil |-> FALSE, msg |-> tokens]

ErrNoAPIKey == Err(<<"no api key provided">>)

ErrNoUserID == Err(<<"no user id provided">>)

ErrNoUsername == Err(<<"no username provided">>)

ErrInvalidUsername == Err(<<"invalid username provide">>)

ErrUserHasNoRole == Err(<<"this user has no role">>)

ErrNoGroupID == Err(<<"no group id provided">>)

ErrNoGroupname == Err(<<"no group name provided">>)

ErrInvalidGroupname == Err(<<"invalid group name provided">>)

ErrNoRoleID == Err(<<"no role id provided">>)

NilClient == [nil |-> TRUE, APIKey |-> "", Transport |-> ""]

NilResp == [nil |-> TRUE]

NilBody == [nil |-> TRUE]

robloxGoUserAgent == "RobloxGo"

EndpointCloudAPI == "https://apis.roblox.com/cloud/v" \o "2" \o "/"

EndPointCloudUsers == EndpointCloudAPI \o "users/"

EndpointCloudGroups == EndpointCloudAPI \o "groups/"

EndpointLegacyUsers == "https://users.roblox.com"

EndpointLegacyGetUsers == EndpointLegacyUsers \o "/v1/usernames/users"

EndpointLegacyGroups == "https://groups.roblox.com"

EndpointLegacyGetGroups == EndpointLegacyGroups \o "/v1/groups/search/lookup"
EndpointLegacyGetGroupIcon == "https://thumbnails.roblox.com/v1/groups/icons"

(***************************************************************************)
(* strconv of a non-negative int, as fmt's %d and the status line write it.*)
(***************************************************************************)
Digit == <<"0", "1", "2", "3", "4", "5", "6", "7", "8", "9">>

RECURSIVE Itoa(_)
Itoa(n) == IF n < 10 THEN Digit[n + 1] ELSE Itoa(n \div 10) \o Digit[(n % 10) + 1]

Contains(msg, tok) == \E i \in DOMAIN msg : msg[i] = tok

(***************************************************************************)
(* The response-code table.                                                *)
(***************************************************************************)
DocumentedCodes == {400, 403, 404, 409, 429, 499, 500, 503}

httpResponses(code) ==
    CASE code = 200 -> [Code |-> 200, Error |-> "response ok"]
      [] code = 400 -> [Code |-> 400, Error |-> "invalid argument passed"]
      [] code = 403 -> [Code |-> 403, Error |-> "missing permission scopes"]
      [] code = 404 -> [Code |-> 404, Error |-> "resource not found"]
      [] code = 409 -> [Code |-> 409, Error |-> "operation aborted"]
      [] code = 429 -> [Code |-> 429, Error |-> "too many requests"]
      [] code = 499 -> [Code |-> 499, Error |-> "system terminated request"]
      [] code = 500 -> [Code |-> 500, Error |-> "the service replied with internal server error"]
      [] code = 503 -> [Code |-> 503, Error |-> "the service is currently unavailable"]
      [] OTHER -> [Code |-> 0, Error |-> ""]

(***************************************************************************)
(* Create.                                                                 *)
(***************************************************************************)
\* Mutant: the empty key is not rejected.
CreateUnchecked(apikey) ==
    [client |-> [nil |-> FALSE, APIKey |-> apikey, Transport |-> "http.DefaultTransport"],
     err |-> NilErr]

Create(apikey) ==
    IF apikey = ""
    THEN [client |-> NilClient, err |-> ErrNoAPIKey]
    ELSE [client |-> [nil |-> FALSE, APIKey |-> apikey,
                      Transport |-> "http.DefaultTransport"],
          err |-> NilErr]

(***************************************************************************)
(* http.Header: a map from canonical key to value.  Header.Set stores      *)
(* under textproto's canonical form of the key it is given.                *)
(***************************************************************************)
CanonicalHeaderKey(k) ==
    CASE k \in {"X-API-KEY", "x-api-key", "X-Api-Key"} -> "X-Api-Key"
      [] k \in {"User-Agent", "user-agent"} -> "User-Agent"
      [] k \in {"Content-Type", "content-type"} -> "Content-Type"
      [] OTHER -> k

HeaderSet(h, k, v) ==
    [x \in (DOMAIN h) \cup {CanonicalHeaderKey(k)} |->
        IF x = CanonicalHeaderKey(k) THEN v ELSE h[x]]

HeaderGet(h, k) ==
    IF CanonicalHeaderKey(k) \in DOMAIN h THEN h[CanonicalHeaderKey(k)] ELSE ""

EmptyHeader == [x \in {} |-> ""]

RECURSIVE SetHeaders(_, _)
SetHeaders(h, headers) ==
    IF headers = <<>> THEN h
    ELSE SetHeaders(HeaderSet(h, Head(headers).Key, Head(headers).Value), Tail(headers))

(***************************************************************************)
(* url.Values: a map from key to the list of its values.  A methodURL is   *)
(* its part before "?" and the key=value pairs after it, in order.         *)
(***************************************************************************)
RECURSIVE ParseQuery(_)
ParseQuery(pairs) ==
    IF pairs = <<>> THEN [x \in {} |-> <<>>]
    ELSE LET rest == ParseQuery(SubSeq(pairs, 1, Len(pairs) - 1))
             last == pairs[Len(pairs)]
         IN  [x \in (DOMAIN rest) \cup {last[1]} |->
                 IF x = last[1]
                 THEN (IF x \in DOMAIN rest THEN rest[x] ELSE <<>>) \o <<last[2]>>
                 ELSE rest[x]]

\* Mutant: the parameter is appended to the key's values (Values.Add).
ValuesAdd(q, k, v) ==
    [x \in (DOMAIN q) \cup {k} |->
        IF x = k THEN (IF k \in DOMAIN q THEN q[k] ELSE <<>>) \o <<v>> ELSE q[x]]

ValuesSet(q, k, v) == [x \in (DOMAIN q) \cup {k} |-> IF x = k THEN <<v>> ELSE q[x]]

RECURSIVE SetParameters(_, _)
SetParameters(q, parameters) ==
    IF parameters = <<>> THEN q
    ELSE SetParameters(ValuesSet(q, Head(parameters).Key, Head(parameters).Value),
                       Tail(parameters))

\* The keys of the model in the byte order Values.Encode sorts them by.
QueryKeyOrder ==
    <<"a", "b", "c", "format", "groupIds", "groupName", "isCircular",
      "maxPageSize", "pageToken", "size">>

RECURSIVE EncodeFrom(_, _)
EncodeFrom(q, i) ==
    IF i > Len(QueryKeyOrder) THEN <<>>
    ELSE LET k == QueryKeyOrder[i]
         IN  (IF k \in DOMAIN q
              THEN [j \in 1..Len(q[k]) |-> <<k, q[k][j]>>]
              ELSE <<>>) \o EncodeFrom(q, i + 1)

ValuesEncode(q) == EncodeFrom(q, 1)

\* The values of key k among key=value pairs, in order.
RECURSIVE ValuesOf(_, _)
ValuesOf(pairs, k) ==
    IF pairs = <<>> THEN <<>>
    ELSE (IF Head(pairs)[1] = k THEN <<Head(pairs)[2]>> ELSE <<>>)
         \o ValuesOf(Tail(pairs), k)

URL(path, rawQuery) == [path |-> path, query |-> rawQuery]

(***************************************************************************)
(* newHttpRequest.                                                         *)
(***************************************************************************)
MergeQuery(methodURL, parameters) ==
    ValuesEncode(SetParameters(ParseQuery(methodURL.query), parameters))

\* Mutant: Content-Type is attached to every request.
ContentTypeAlways(method, body) ==
    HeaderSet(EmptyHeader, "Content-Type", "application/json")

ContentTypeHeader(method, body) ==
    IF method # "GET" /\ ~body.nil
    THEN HeaderSet(EmptyHeader, "Content-Type", "application/json")
    ELSE EmptyHeader

newHttpRequest(method, methodURL, body, headers, parameters) ==
    [method |-> method,
     path   |-> methodURL.path,
     query  |-> MergeQuery(methodURL, parameters),
     hasBody |-> ~body.nil,
     body   |-> body,
     header |-> HeaderSet(SetHeaders(ContentTypeHeader(method, body), headers),
                          "User-Agent", robloxGoUserAgent)]

(***************************************************************************)
(* APIVerificationStruct.RoundTrip: the request as it is handed to the     *)
(* underlying transport.                                                   *)
(***************************************************************************)
\* Mutant: the credential header is not attached.
RoundTripNoKey(a, request) == request

RoundTrip(a, request) ==
    [request EXCEPT !.header = HeaderSet(request.header, "X-API-KEY", a.APIKey)]

\* c.client.Do: one exchange, the request as sent and the answer it got.
\* The body of a response is open when Do returns it.
Do(c, request, answer) ==
    [req |-> RoundTrip(c, request), ans |-> answer, closed |-> FALSE]

\* resp.Body.Close() on the response of the exchange x, where there is one.
Close(x) == IF x.ans.kind = "resp" THEN [x EXCEPT !.closed = TRUE] ELSE x

(***************************************************************************)
(* Answers of the server.                                                  *)
(***************************************************************************)
NetErr == [kind |-> "neterr"]

Resp(code, reason, body) ==
    [kind |-> "resp", StatusCode |-> code, Reason |-> reason, Body |-> body,
     readable |-> TRUE]

Unreadable(a) == [a EXCEPT !.readable = FALSE]

\* resp.Status: the status code in decimal, a space, the reason phrase.
Status(resp) == <<Itoa(resp.StatusCode), " ", resp.Reason>>

ErrNetwork == Err(<<"Get: connection refused">>)

ErrUnexpectedEOF == "unexpected EOF"

(***************************************************************************)
(* httpErrorCheck.                                                         *)
(***************************************************************************)
\* Mutant: every 2xx status passes.
httpErrorCheck2xx(resp) ==
    IF resp.StatusCode >= 200 /\ resp.StatusCode < 300 THEN NilErr
    ELSE Err(<<"http error ">> \o Status(resp) \o <<": ", resp.Body.text>>)

httpErrorCheck(resp) ==
    IF resp.StatusCode = 200 THEN NilErr
    ELSE IF ~resp.readable
         THEN Err(<<"http error ">> \o Status(resp)
                  \o <<": unable to read body: ", ErrUnexpectedEOF>>)
         ELSE Err(<<"http error ">> \o Status(resp) \o <<": ", resp.Body.text>>)

(***************************************************************************)
(* get, post, patch, delete: the exchange made and what the method returns.*)
(***************************************************************************)
RespResult(answer) ==
    IF answer.kind = "neterr" THEN [resp |-> NilResp, err |-> ErrNetwork]
    ELSE IF ~httpErrorCheck(answer).nil
         THEN [resp |-> NilResp, err |-> httpErrorCheck(answer)]
         ELSE [resp |-> [nil |-> FALSE, StatusCode |-> answer.StatusCode,
                         Body |-> answer.Body],
               err |-> NilErr]

ClientGet(c, methodURL, headers, parameters, answer) ==
    [x   |-> Do(c, newHttpRequest("GET", methodURL, NilBody, headers, parameters), answer),
     ret |-> RespResult(answer)]

ClientPost(c, methodURL, body, headers, parameters, answer) ==
    [x   |-> Do(c, newHttpRequest("POST", methodURL, body, headers, parameters), answer),
     ret |-> RespResult(answer)]

PatchResult(answer) ==
    IF answer.kind = "neterr" THEN [ok |-> FALSE, err |-> ErrNetwork]
    ELSE IF ~httpErrorCheck(answer).nil
         THEN [ok |-> FALSE, err |-> httpErrorCheck(answer)]
         ELSE [ok |-> TRUE, err |-> NilErr]

ClientPatch(c, methodURL, headers, body, answer) ==
    [x   |-> Close(Do(c, newHttpRequest("PATCH", methodURL, body, headers, <<>>), answer)),
     ret |-> PatchResult(answer)]

DeleteResult(answer) ==
    IF answer.kind = "neterr" THEN [ok |-> FALSE, err |-> ErrNetwork]
    ELSE IF answer.StatusCode # 200
         THEN [ok |-> FALSE,
               err |-> Err(<<"http error ", Itoa(answer.StatusCode), ": ">>
                           \o Status(answer))]
         ELSE [ok |-> TRUE, err |-> NilErr]

ClientDelete(c, methodURL, headers, answer) ==
    [x   |-> Close(Do(c, newHttpRequest("DELETE", methodURL, NilBody, headers, <<>>),
                      answer)),
     ret |-> DeleteResult(answer)]

(***************************************************************************)
(* JSON documents and their decoding.  A body is its raw text and the      *)
(* document the text denotes; json.Decoder fails on a text that is no      *)
(* JSON, and leaves the fields a document does not carry at their zero.    *)
(* A relation string ("users/1") is the sequence of its parts.             *)
(***************************************************************************)
JSONBody(text, doc) == [text |-> text, doc |-> doc]

GarbageBody == JSONBody("<html>", [shape |-> "garbage"])

ErrDecode == Err(<<"invalid character '<' looking for beginning of value">>)

RECURSIVE Join(_)
Join(parts) == IF parts = <<>> THEN "" ELSE Head(parts) \o Join(Tail(parts))

\* strings.TrimPrefix(s, "users/")
TrimPrefix(parts) ==
    IF parts # <<>> /\ Head(parts) = "users/" THEN Tail(parts) ELSE parts

Field(doc, name, zero) == IF name \in DOMAIN doc THEN doc[name] ELSE zero

NilValue == [nil |-> TRUE]

\* newUser(c) filled by Decode.
DecodeUser(doc) ==
    [nil |-> FALSE,
     ID |-> Field(doc, "id", ""),
     Username |-> Field(doc, "name", ""),
     Displayname |-> Field(doc, "displayName", "")]

\* newGroup(c) filled by Decode.
DecodeGroup(doc) ==
    [nil |-> FALSE,
     ID |-> Field(doc, "id", ""),
     Groupname |-> Field(doc, "displayName", ""),
     OwnerID |-> Field(doc, "owner", <<>>)]

DecodeRole(doc) ==
    [nil |-> FALSE,
     ID |-> Field(doc, "id", ""),
     Name |-> Field(doc, "displayName", ""),
     Rank |-> Field(doc, "rank", "")]

\* A local that is assigned once (x := e) and read many times: the value of
\* the function [x \in {e} |-> body], whose domain is the one value of e.
Once(f) == CHOOSE y \in UNION {{h[x] : x \in DOMAIN h} : h \in {f}} : TRUE

Result(xs, val, err) == [sent |-> xs, val |-> val, err |-> err, panic |-> FALSE]

\* The call did not return: a nil pointer was dereferenced.
Panicked(xs) == [sent |-> xs, val |-> NilValue, err |-> NilErr, panic |-> TRUE]

\* The answers left for the calls that follow a call that made n exchanges.
After(answers, n) == SubSeq(answers, n + 1, Len(answers))

(***************************************************************************)
(* Client.GetUserByID.                                                     *)
(***************************************************************************)
GetUserByID(c, userID, answers) ==
    IF userID = "" THEN Result(<<>>, NilValue, ErrNoUserID)
    ELSE Once([g \in {ClientGet(c, URL(EndPointCloudUsers \o userID, <<>>), <<>>, <<>>,
                        answers[1])} |->
                  IF ~g.ret.err.nil THEN Result(<<g.x>>, NilValue, g.ret.err)
                  ELSE IF g.ret.resp.Body.doc.shape = "garbage"
                       THEN Result(<<Close(g.x)>>, NilValue, ErrDecode)
                       ELSE Result(<<Close(g.x)>>, DecodeUser(g.ret.resp.Body.doc), NilErr)])

(***************************************************************************)
(* Client.GetUserByUsername.                                               *)
(***************************************************************************)
GetUserByUsername(c, username, answers) ==
    IF username = "" THEN Result(<<>>, NilValue, ErrNoUsername)
    ELSE Once([p \in {ClientPost(c, URL(EndpointLegacyGetUsers, <<>>),
                         [nil |-> FALSE, usernames |-> <<username>>,
                          excludeBannedUsers |-> TRUE],
                         <<>>, <<>>, answers[1])} |->
                  IF ~p.ret.err.nil THEN Result(<<p.x>>, NilValue, p.ret.err)
                  ELSE IF p.ret.resp.Body.doc.shape = "garbage"
                       THEN Result(<<Close(p.x)>>, NilValue, ErrDecode)
                  ELSE IF Len(Field(p.ret.resp.Body.doc, "data", <<>>)) = 0
                       THEN Result(<<Close(p.x)>>, NilValue, ErrInvalidUsername)
                  ELSE Once([g \in {ClientGet(c,
                                URL(EndPointCloudUsers
                                    \o DecodeUser(Field(p.ret.resp.Body.doc, "data",
                                                        <<>>)[1]).ID,
                                    <<>>),
                                <<>>, <<>>, answers[2])} |->
                                IF ~g.ret.err.nil
                                THEN Result(<<Close(p.x), g.x>>, NilValue, g.ret.err)
                                ELSE IF g.ret.resp.Body.doc.shape = "garbage"
                                     THEN Result(<<Close(p.x), Close(g.x)>>, NilValue, ErrDecode)
                                     ELSE Result(<<Close(p.x), Close(g.x)>>,
                                                 DecodeUser(g.ret.resp.Body.doc), NilErr)])])

(***************************************************************************)
(* Client.GetGroupByID.                                                    *)
(***************************************************************************)
NormaliseOwner(group) == [group EXCEPT !.OwnerID = TrimPrefix(group.OwnerID)]

GetGroupByID(c, groupID, answers) ==
    IF groupID = "" THEN Result(<<>>, NilValue, ErrNoGroupID)
    ELSE Once([g \in {ClientGet(c, URL(EndpointCloudGroups \o groupID, <<>>), <<>>, <<>>,
                        answers[1])} |->
                  IF ~g.ret.err.nil THEN Result(<<g.x>>, NilValue, g.ret.err)
                  ELSE IF g.ret.resp.Body.doc.shape = "garbage"
                       THEN Result(<<Close(g.x)>>, NilValue, ErrDecode)
                       ELSE Result(<<Close(g.x)>>,
                                   NormaliseOwner(DecodeGroup(g.ret.resp.Body.doc)),
                                   NilErr)])

(***************************************************************************)
(* Client.GetGroupByGroupname.                                             *)
(***************************************************************************)
\* Mutant: any candidate of the list may carry the name.
GroupnameMatchesAny(data, groupname) ==
    \E i \in DOMAIN data : Field(data[i], "name", "") = groupname

\* len(legacyResponse.Data) != 0 && legacyResponse.Data[0].Name == groupname
GroupnameMatches(data, groupname) ==
    Len(data) # 0 /\ Field(data[1], "name", "") = groupname

\* Mutant: the canonical record keeps its own display name.
OverlayNothing(group, legacyGroup) == group

\* group.Groupname = legacyGroup.Name
OverlayName(group, legacyGroup) == [group EXCEPT !.Groupname = legacyGroup.name]

GetGroupByGroupname(c, groupname, answers) ==
    IF groupname = "" THEN Result(<<>>, NilValue, ErrNoGroupname)
    ELSE Once([l \in {ClientGet(c, URL(EndpointLegacyGetGroups, <<>>), <<>>,
                        <<[Key |-> "groupName", Value |-> groupname]>>, answers[1])} |->
                  IF ~l.ret.err.nil THEN Result(<<l.x>>, NilValue, l.ret.err)
                  ELSE IF l.ret.resp.Body.doc.shape = "garbage"
                       THEN Result(<<Close(l.x)>>, NilValue, ErrDecode)
                  ELSE IF ~GroupnameMatches(Field(l.ret.resp.Body.doc, "data", <<>>),
                                            groupname)
                       THEN Result(<<Close(l.x)>>, NilValue, ErrInvalidGroupname)
                  ELSE Once([g \in {ClientGet(c,
                                URL(EndpointCloudGroups
                                    \o Field(Field(l.ret.resp.Body.doc, "data", <<>>)[1],
                                             "id", ""),
                                    <<>>),
                                <<>>, <<>>, answers[2])} |->
                                IF ~g.ret.err.nil
                                THEN Result(<<Close(l.x), g.x>>, NilValue, g.ret.err)
                                ELSE IF g.ret.resp.Body.doc.shape = "garbage"
                                     THEN Result(<<Close(l.x), Close(g.x)>>, NilValue, ErrDecode)
                                     ELSE Result(<<Close(l.x), Close(g.x)>>,
                                              NormaliseOwner(
                                                OverlayName(
                                                  DecodeGroup(g.ret.resp.Body.doc),
                                                  Field(l.ret.resp.Body.doc, "data",
                                                        <<>>)[1])),
                                              NilErr)])])

(***************************************************************************)
(* Group.GetRole.  Decode fills a nil *GroupRole: the JSON null leaves it  *)
(* nil without an error.                                                   *)
(***************************************************************************)
GetRole(c, g, roleID, answers) ==
    IF roleID = "" THEN Result(<<>>, NilValue, ErrNoRoleID)
    ELSE Once([r \in {ClientGet(c, URL(EndpointCloudGroups \o g.ID \o "/roles/" \o roleID,
                               <<>>),
                        <<>>, <<>>, answers[1])} |->
                  IF ~r.ret.err.nil THEN Result(<<r.x>>, NilValue, r.ret.err)
                  ELSE IF r.ret.resp.Body.doc.shape = "garbage"
                       THEN Result(<<Close(r.x)>>, NilValue, ErrDecode)
                  ELSE IF r.ret.resp.Body.doc.shape = "null"
                       THEN Result(<<Close(r.x)>>, NilValue, NilErr)
                       ELSE Result(<<Close(r.x)>>, DecodeRole(r.ret.resp.Body.doc), NilErr)])

(***************************************************************************)
(* Group.GetUserRole.                                                      *)
(***************************************************************************)
\* Mutant: the last entry of the listing whose group is g decides.
LastOfGroup(data, g) ==
    IF \E i \in DOMAIN data : Field(Field(data[i], "group", <<>>), "id", "") = g.ID
    THEN CHOOSE i \in DOMAIN data :
             /\ Field(Field(data[i], "group", <<>>), "id", "") = g.ID
             /\ \A j \in (i + 1)..Len(data) :
                    Field(Field(data[j], "group", <<>>), "id", "") # g.ID
    ELSE 0

\* The index of the first entry of the listing whose group is g, 0 if none.
FirstOfGroup(data, g) ==
    IF \E i \in DOMAIN data : Field(Field(data[i], "group", <<>>), "id", "") = g.ID
    THEN CHOOSE i \in DOMAIN data :
             /\ Field(Field(data[i], "group", <<>>), "id", "") = g.ID
             /\ \A j \in 1..(i - 1) :
                    Field(Field(data[j], "group", <<>>), "id", "") # g.ID
    ELSE 0

\* The role ID of the first entry of the listing whose group is g.
RoleOfGroup(data, g) == Field(Field(data[FirstOfGroup(data, g)], "role", <<>>), "id", "")

GetUserRole(c, g, userID, answers) ==
    IF userID = "" THEN Result(<<>>, NilValue, ErrNoUserID)
    ELSE Once([u \in {GetUserByID(c, userID, answers)} |->
    IF ~u.err.nil THEN Result(u.sent, NilValue, u.err)
    ELSE Once([l \in {ClientGet(c, URL(EndpointLegacyGroups \o "/v2/users/" \o u.val.ID
                               \o "/groups/roles", <<>>),
                        <<>>, <<>>, answers[2])} |->
    IF ~l.ret.err.nil THEN Result(u.sent \o <<l.x>>, NilValue, l.ret.err)
    ELSE IF l.ret.resp.Body.doc.shape = "garbage"
         THEN Result(u.sent \o <<Close(l.x)>>, NilValue, ErrDecode)
    ELSE IF FirstOfGroup(Field(l.ret.resp.Body.doc, "data", <<>>), g) = 0
         THEN Result(u.sent \o <<Close(l.x)>>, NilValue, ErrUserHasNoRole)
    ELSE Once([r \in {GetRole(c, g, RoleOfGroup(Field(l.ret.resp.Body.doc, "data", <<>>), g),
                      After(answers, 2))} |->
    IF ~r.err.nil THEN Result(u.sent \o <<Close(l.x)>> \o r.sent, NilValue, r.err)
    ELSE Result(u.sent \o <<Close(l.x)>> \o r.sent, r.val, NilErr)])])])

(***************************************************************************)
(* Group.JoinRequestAccept, Group.JoinRequestDecline.                      *)
(***************************************************************************)
EmptyObject == [nil |-> FALSE, json |-> "{}"]

\* Mutant: the request is posted without looking the user up.
JoinRequestActionNoLookup(c, g, userID, action, answers) ==
    IF userID = "" THEN Result(<<>>, FALSE, ErrNoUserID)
    ELSE Once([p \in {ClientPost(c, URL(EndpointCloudGroups \o g.ID \o "/join-requests/"
                                \o userID \o action, <<>>),
                         EmptyObject, <<>>, <<>>, answers[2])} |->
    IF ~p.ret.err.nil THEN Result(<<p.x>>, FALSE, p.ret.err)
    ELSE Result(<<Close(p.x)>>, TRUE, NilErr)])

JoinRequestAction(c, g, userID, action, answers) ==
    IF userID = "" THEN Result(<<>>, FALSE, ErrNoUserID)
    ELSE Once([u \in {GetUserByID(c, userID, answers)} |->
    IF ~u.err.nil THEN Result(u.sent, FALSE, u.err)
    ELSE Once([p \in {ClientPost(c, URL(EndpointCloudGroups \o g.ID \o "/join-requests/"
                                \o userID \o action, <<>>),
                         EmptyObject, <<>>, <<>>, answers[2])} |->
    IF ~p.ret.err.nil THEN Result(u.sent \o <<p.x>>, FALSE, p.ret.err)
    ELSE Result(u.sent \o <<Close(p.x)>>, TRUE, NilErr)])])

JoinRequestAccept(c, g, userID, answers) ==
    JoinRequestAction(c, g, userID, ":accept", answers)

JoinRequestDecline(c, g, userID, answers) ==
    JoinRequestAction(c, g, userID, ":decline", answers)

(***************************************************************************)
(* Group.GetGroupIcon.  The first entry of the decoded data list is        *)
(* indexed without a look at the list's length: on an empty list the call  *)
(* panics, and the deferred Close of the body runs.                        *)
(***************************************************************************)
IconQuery(g, large, isCircular) ==
    <<[Key |-> "groupIds", Value |-> g.ID],
      [Key |-> "format", Value |-> "Png"],
      [Key |-> "size", Value |-> IF large THEN "420x420" ELSE "150x150"],
      [Key |-> "isCircular", Value |-> IF isCircular THEN "true" ELSE "false"]>>

GetGroupIcon(c, g, large, isCircular, answers) ==
    Once([l \in {ClientGet(c, URL(EndpointLegacyGetGroupIcon, <<>>), <<>>,
                           IconQuery(g, large, isCircular), answers[1])} |->
    IF ~l.ret.err.nil THEN Result(<<l.x>>, "", l.ret.err)
    ELSE IF l.ret.resp.Body.doc.shape = "garbage"
         THEN Result(<<Close(l.x)>>, "", ErrDecode)
    ELSE IF Len(Field(l.ret.resp.Body.doc, "data", <<>>)) = 0
         THEN Panicked(<<Close(l.x)>>)
    ELSE Result(<<Close(l.x)>>,
                Field(Field(l.ret.resp.Body.doc, "data", <<>>)[1], "imageUrl", ""),
                NilErr)])

(***************************************************************************)
(* Group.GetJoinRequests.  A time is the RFC 3339 text of its instant in   *)
(* UTC; time.Parse returns the zero time with its error.                   *)
(***************************************************************************)
ZeroTime == "0001-01-01T00:00:00Z"

\* Mutant: the parsed time keeps the zone it was written in.
ParseRFC3339Local(text) ==
    IF text \in {"2024-05-01T09:30:00Z", "2024-05-01T12:00:00+02:00"}
    THEN [time |-> text, ok |-> TRUE]
    ELSE [time |-> ZeroTime, ok |-> FALSE]

\* time.Parse(time.RFC3339, text) followed by UTC().
ParseRFC3339(text) ==
    CASE text = "2024-05-01T09:30:00Z" -> [time |-> "2024-05-01T09:30:00Z", ok |-> TRUE]
      [] text = "2024-05-01T12:00:00+02:00" ->
             [time |-> "2024-05-01T10:00:00Z", ok |-> TRUE]
      [] OTHER -> [time |-> ZeroTime, ok |-> FALSE]

\* The loop over the listed requests: the account lookup, continue when it
\* fails, the append.  The error of time.Parse is dropped.
RECURSIVE JoinRequestsFrom(_, _, _, _, _)
JoinRequestsFrom(c, entries, answers, xs, requests) ==
    IF entries = <<>> THEN Result(xs, requests, NilErr)
    ELSE Once([u \in {GetUserByID(c, Join(TrimPrefix(Field(Head(entries), "user", <<>>))),
                                  answers)} |->
    IF ~u.err.nil
    THEN JoinRequestsFrom(c, Tail(entries), After(answers, Len(u.sent)), xs \o u.sent,
                          requests)
    ELSE JoinRequestsFrom(c, Tail(entries), After(answers, Len(u.sent)), xs \o u.sent,
             Append(requests,
                    [ID |-> Join(TrimPrefix(Field(Head(entries), "user", <<>>))),
                     Username |-> u.val.Username,
                     CreatedAt |-> ParseRFC3339(Field(Head(entries), "createTime",
                                                      "")).time]))])

GetJoinRequests(c, g, answers) ==
    Once([l \in {ClientGet(c, URL(EndpointCloudGroups \o g.ID \o "/join-requests", <<>>),
                           <<>>, <<>>, answers[1])} |->
    IF ~l.ret.err.nil THEN Result(<<l.x>>, NilValue, l.ret.err)
    ELSE IF l.ret.resp.Body.doc.shape = "garbage"
         THEN Result(<<Close(l.x)>>, NilValue, ErrDecode)
         ELSE JoinRequestsFrom(c, Field(l.ret.resp.Body.doc, "groupJoinRequests", <<>>),
                               After(answers, 1), <<Close(l.x)>>, <<>>)])

(***************************************************************************)
(* Group.UpdateUserRole.                                                   *)
(***************************************************************************)
UpdateUserRole(c, g, userID, roleID, answers) ==
    IF userID = "" THEN Result(<<>>, NilValue, ErrNoUserID)
    ELSE IF roleID = "" THEN Result(<<>>, NilValue, ErrNoRoleID)
    ELSE Once([u \in {GetUserByID(c, userID, answers)} |->
    IF ~u.err.nil THEN Result(u.sent, NilValue, u.err)
    ELSE Once([r \in {GetRole(c, g, roleID, After(answers, 1))} |->
    IF ~r.err.nil THEN Result(u.sent \o r.sent, NilValue, r.err)
    ELSE IF r.val.nil THEN Panicked(u.sent \o r.sent)
    ELSE Once([p \in {ClientPatch(c,
                  URL(EndpointCloudGroups \o g.ID \o "/memberships/" \o u.val.ID, <<>>),
                  <<>>,
                  [nil |-> FALSE,
                   path |-> "groups" \o g.ID \o "/memberships/" \o u.val.ID,
                   user |-> "users/" \o u.val.ID,
                   role |-> "groups/" \o g.ID \o "/roles/" \o r.val.ID],
                  answers[3])} |->
    IF ~p.ret.err.nil THEN Result(u.sent \o r.sent \o <<p.x>>, NilValue, p.ret.err)
    ELSE Result(u.sent \o r.sent \o <<p.x>>, r.val, NilErr)])])])

(***************************************************************************)
(* Group.RemoveUser.                                                       *)
(***************************************************************************)
\* Mutant: the user ID is not checked.
RemoveUserUnchecked(c, g, userID, answers) ==
    Once([d \in {ClientDelete(c, URL(EndpointLegacyGroups \o g.ID \o "/users/" \o userID, <<>>),
                      <<>>, answers[1])} |-> Result(<<d.x>>, d.ret.ok, d.ret.err)])

RemoveUser(c, g, userID, answers) ==
    IF userID = "" THEN Result(<<>>, FALSE, ErrNoUserID)
    ELSE Once([d \in {ClientDelete(c, URL(EndpointLegacyGroups \o g.ID \o "/users/" \o userID,
                                  <<>>),
                           <<>>, answers[1])} |-> Result(<<d.x>>, d.ret.ok, d.ret.err)])

(***************************************************************************)
(* Group.GetMembers and Group.GetRoles: the parts of the loop body.        *)
(***************************************************************************)
\* Mutant: the roles are asked for with the page size of the memberships.
PageSizeOfMembers(op) == "100"

PageSize(op) == IF op = "GetMembers" THEN "100" ELSE "20"

PageURL(op, g) ==
    URL(EndpointCloudGroups \o g.ID
        \o (IF op = "GetMembers" THEN "/memberships" ELSE "/roles"), <<>>)

PageItemsField(op) == IF op = "GetMembers" THEN "groupMemberships" ELSE "groupRoles"

\* Mutant: the page token is never sent.
PageQueryFirstOnly(op, pageToken) == <<[Key |-> "maxPageSize", Value |-> PageSize(op)]>>

PageQuery(op, pageToken) ==
    <<[Key |-> "maxPageSize", Value |-> PageSize(op)]>>
    \o (IF pageToken # "" THEN <<[Key |-> "pageToken", Value |-> pageToken]>> ELSE <<>>)

\* What one iteration of the loop over a page's items did: the exchanges it
\* made, the list after it, whether the item was skipped, whether the role
\* pointer was dereferenced while nil, and the error GetUserRole returned.
Step(xs, acc, skipped, panic, roleErr) ==
    [sent |-> xs, acc |-> acc, skipped |-> skipped, panic |-> panic,
     roleErr |-> roleErr]

\* member.User with the prefix "users/" trimmed.
MemberID(member) == Join(TrimPrefix(Field(member, "user", <<>>)))

\* Mutant: a member whose account lookup failed is appended all the same.
ProcessMemberNoContinue(c, g, members, member, answers) ==
    Once([u \in {GetUserByID(c, MemberID(member), answers)} |->
    IF ~u.err.nil
    THEN Step(u.sent, Append(members, [ID |-> MemberID(member), Username |-> "",
                                       GroupRole |-> NilValue]), TRUE, FALSE, NilErr)
    ELSE Once([r \in {GetUserRole(c, g, MemberID(member), After(answers, 1))} |->
    IF r.val.nil THEN Step(u.sent \o r.sent, members, FALSE, TRUE, r.err)
    ELSE Step(u.sent \o r.sent,
              Append(members, [ID |-> MemberID(member), Username |-> u.val.Username,
                               GroupRole |-> r.val]),
              FALSE, FALSE, r.err)])])

\* One membership entry: the account lookup, the role lookup, the append.
\* The role is dereferenced whatever GetUserRole returned.
ProcessMember(c, g, members, member, answers) ==
    Once([u \in {GetUserByID(c, MemberID(member), answers)} |->
    IF ~u.err.nil THEN Step(u.sent, members, TRUE, FALSE, NilErr)
    ELSE Once([r \in {GetUserRole(c, g, MemberID(member), After(answers, 1))} |->
    IF r.val.nil THEN Step(u.sent \o r.sent, members, FALSE, TRUE, r.err)
    ELSE Step(u.sent \o r.sent,
              Append(members, [ID |-> MemberID(member), Username |-> u.val.Username,
                               GroupRole |-> r.val]),
              FALSE, FALSE, r.err)])])

\* One listed role: the lookup and the append of what it returned.
ProcessRole(c, g, roles, role, answers) ==
    Once([r \in {GetRole(c, g, DecodeRole(role).ID, answers)} |->
    IF ~r.err.nil THEN Step(r.sent, roles, TRUE, FALSE, NilErr)
    ELSE IF r.val.nil THEN Step(r.sent, roles, FALSE, TRUE, NilErr)
    ELSE Step(r.sent, Append(roles, r.val), FALSE, FALSE, NilErr)])

(***************************************************************************)
(* The inputs of the model.                                                *)
(***************************************************************************)
SeqsUpTo(S, n) == UNION {[1..m -> S] : m \in 0..n}

APIKeys == {"", "abc123", "key2"}

HeaderKeys == {"x-api-key", "User-Agent", "Accept"}

CallerHeaders == SeqsUpTo([Key : HeaderKeys, Value : {"caller"}], MaxHeaders)

CallerParameters == SeqsUpTo([Key : {"a", "b"}, Value : {"1", "2"}], MaxParams)

MethodURLs ==
    {URL(EndpointCloudGroups \o "7", <<>>),
     URL(EndpointCloudGroups \o "7", <<<<"c", "0">>, <<"a", "0">>, <<"c", "9">>>>)}

RequestBodies == {NilBody, [nil |-> FALSE, json |-> "{}"]}

\* net/http's StatusText for the status codes of the model.
StatusText(code) ==
    CASE code = 200 -> "OK"
      [] code = 201 -> "Created"
      [] code = 204 -> "No Content"
      [] code = 400 -> "Bad Request"
      [] code = 403 -> "Forbidden"
      [] code = 404 -> "Not Found"
      [] code = 409 -> "Conflict"
      [] code = 418 -> "I'm a teapot"
      [] code = 429 -> "Too Many Requests"
      [] code = 500 -> "Internal Server Error"
      [] code = 503 -> "Service Unavailable"
      [] OTHER -> ""

StatusCodes == {200, 201, 204, 418} \cup DocumentedCodes

TextBody(text) == [text |-> text, doc |-> [shape |-> "none"]]

TransportAnswers ==
    {NetErr, Unreadable(Resp(404, StatusText(404), TextBody("")))}
    \cup {Resp(code, StatusText(code), TextBody("{\"message\":\"m\"}")) :
              code \in StatusCodes}

Idle == [pc |-> "idle"]

Goroutines == 1..NumGoroutines

NotStarted == [pc |-> "idle"]

\* A call starts on a client that Create returned, when no call is under way.
Ready ==
    /\ pg.pc = "idle" /\ ~client.nil /\ call.op = "Create"
    /\ \A i \in Goroutines : gor[i].pc = "idle"

(***************************************************************************)
(* The initial state: no client has been created yet.                      *)
(***************************************************************************)
Init ==
    /\ client = NilClient
    /\ call = [op |-> "none"]
    /\ ret = [err |-> NilErr]
    /\ sent = <<>>
    /\ pg = Idle
    /\ gor = [i \in Goroutines |-> NotStarted]

(***************************************************************************)
(* The caller creates a client and keeps what Create returned.             *)
(***************************************************************************)
CallCreate ==
    /\ pg.pc = "idle" /\ call.op = "none"
    /\ \E apikey \in APIKeys :
        \E r \in {Create(apikey)} :
            /\ call' = [op |-> "Create", apikey |-> apikey]
            /\ ret' = r
            /\ client' = r.client
            /\ sent' = <<>>
            /\ UNCHANGED <<pg, gor>>

TransportCall(op, u, h, p, b) ==
    [op |-> op, methodURL |-> u, headers |-> h, parameters |-> p, body |-> b]

CallGet ==
    /\ Ready
    /\ \E u \in MethodURLs, h \in CallerHeaders, p \in CallerParameters,
          a \in TransportAnswers :
           \E r \in {ClientGet(client, u, h, p, a)} :
               /\ call' = TransportCall("get", u, h, p, NilBody)
               /\ sent' = <<r.x>>
               /\ ret' = r.ret
               /\ UNCHANGED <<client, pg, gor>>

CallPost ==
    /\ Ready
    /\ \E u \in MethodURLs, b \in RequestBodies, h \in CallerHeaders,
          p \in CallerParameters, a \in TransportAnswers :
           \E r \in {ClientPost(client, u, b, h, p, a)} :
               /\ call' = TransportCall("post", u, h, p, b)
               /\ sent' = <<r.x>>
               /\ ret' = r.ret
               /\ UNCHANGED <<client, pg, gor>>

CallPatch ==
    /\ Ready
    /\ \E u \in MethodURLs, h \in CallerHeaders, b \in RequestBodies,
          a \in TransportAnswers :
           \E r \in {ClientPatch(client, u, h, b, a)} :
               /\ call' = TransportCall("patch", u, h, <<>>, b)
               /\ sent' = <<r.x>>
               /\ ret' = r.ret
               /\ UNCHANGED <<client, pg, gor>>

CallDelete ==
    /\ Ready
    /\ \E u \in MethodURLs, h \in CallerHeaders, a \in TransportAnswers :
           \E r \in {ClientDelete(client, u, h, a)} :
               /\ call' = TransportCall("delete", u, h, <<>>, NilBody)
               /\ sent' = <<r.x>>
               /\ ret' = r.ret
               /\ UNCHANGED <<client, pg, gor>>

(***************************************************************************)
(* Calls of the public operations.  The group is one GetGroupByID returned.*)
(***************************************************************************)
TheGroup == [nil |-> FALSE, ID |-> "7", Groupname |-> "Devs", OwnerID |-> <<"1">>]

UserIDs == {"", "1"}

RoleIDs == {"", "5"}

Usernames == {"", "builderman"}

Groupnames == {"", "Devs"}

OK(body) == Resp(200, StatusText(200), body)

NotFound == Resp(404, StatusText(404), JSONBody("{\"code\":\"NOT_FOUND\"}", [shape |-> "object"]))

UserDoc(id) == [shape |-> "object", id |-> id, name |-> "user" \o id]

GroupDoc(id) ==
    [shape |-> "object", id |-> id, displayName |-> "The Devs", owner |-> <<"users/", "1">>]

RoleDoc(id) == [shape |-> "object", id |-> id, displayName |-> "Member", rank |-> "1"]

ListDoc(data) == [shape |-> "object", data |-> data]

UserAnswers(id) == {NotFound, OK(GarbageBody), OK(JSONBody("{user}", UserDoc(id)))}

\* Payloads a server may send for a group: the owner field with the prefix,
\* without it, or with the prefix twice, and a payload carrying another id.
GroupAnswers(id) ==
    {NotFound, OK(GarbageBody), OK(JSONBody("{group}", GroupDoc(id)))}
    \cup {OK(JSONBody("{group,owner:1}", [GroupDoc(id) EXCEPT !.owner = <<"1">>])),
          OK(JSONBody("{group,owner:users/users/1}",
                      [GroupDoc(id) EXCEPT !.owner = <<"users/", "users/", "1">>])),
          OK(JSONBody("{group,id:9}", GroupDoc("9")))}

RoleAnswers(id) == {NotFound, OK(GarbageBody), OK(JSONBody("{role}", RoleDoc(id)))}

LegacyUserAnswers ==
    {NotFound, OK(GarbageBody), OK(JSONBody("{data:[]}", ListDoc(<<>>)))}
    \cup {OK(JSONBody("{data:[u]}", ListDoc(<<[id |-> "1", name |-> n]>>))) :
              n \in {"builderman", "Builderman"}}

LegacyGroupAnswers ==
    {NotFound, OK(GarbageBody), OK(JSONBody("{data:[]}", ListDoc(<<>>)))}
    \cup {OK(JSONBody("{data:[g]}", ListDoc(<<[id |-> "7", name |-> n]>>))) :
              n \in {"Devs", "devs"}}
    \cup {OK(JSONBody("{data:[g,h]}",
                      ListDoc(<<[id |-> "8", name |-> "devs"],
                                [id |-> "7", name |-> "Devs"]>>))),
          OK(JSONBody("{data:[h,g]}",
                      ListDoc(<<[id |-> "7", name |-> "Devs"],
                                [id |-> "8", name |-> "devs"]>>)))}

UserRolesAnswers ==
    {NotFound, OK(GarbageBody), OK(JSONBody("{data:[]}", ListDoc(<<>>)))}
    \cup {OK(JSONBody("{data:[r]}",
                      ListDoc(<<[group |-> [id |-> gid], role |-> [id |-> "5"]]>>))) :
              gid \in {"7", "8"}}
    \cup {OK(JSONBody("{data:[q,r,s]}",
                      ListDoc(<<[group |-> [id |-> "8"], role |-> [id |-> "6"]],
                                [group |-> [id |-> "7"], role |-> [id |-> "5"]],
                                [group |-> [id |-> "7"], role |-> [id |-> "6"]]>>)))}

MutationAnswers == {NotFound, OK(JSONBody("{}", [shape |-> "object"]))}

Returned(r) == [val |-> r.val, err |-> r.err, panic |-> r.panic]

CallGetUserByID ==
    /\ Ready
    /\ \E userID \in UserIDs, a1 \in UserAnswers("1") :
           \E r \in {GetUserByID(client, userID, <<a1>>)} :
               /\ call' = [op |-> "GetUserByID", arg |-> userID]
               /\ sent' = r.sent
               /\ ret' = Returned(r)
               /\ UNCHANGED <<client, pg, gor>>

CallGetUserByUsername ==
    /\ Ready
    /\ \E username \in Usernames, a1 \in LegacyUserAnswers, a2 \in UserAnswers("1") :
           \E r \in {GetUserByUsername(client, username, <<a1, a2>>)} :
               /\ call' = [op |-> "GetUserByUsername", arg |-> username]
               /\ sent' = r.sent
               /\ ret' = Returned(r)
               /\ UNCHANGED <<client, pg, gor>>

CallGetGroupByID ==
    /\ Ready
    /\ \E groupID \in {"", "7"}, a1 \in GroupAnswers("7") :
           \E r \in {GetGroupByID(client, groupID, <<a1>>)} :
               /\ call' = [op |-> "GetGroupByID", arg |-> groupID]
               /\ sent' = r.sent
               /\ ret' = Returned(r)
               /\ UNCHANGED <<client, pg, gor>>

CallGetGroupByGroupname ==
    /\ Ready
    /\ \E groupname \in Groupnames, a1 \in LegacyGroupAnswers, a2 \in GroupAnswers("7") :
           \E r \in {GetGroupByGroupname(client, groupname, <<a1, a2>>)} :
               /\ call' = [op |-> "GetGroupByGroupname", arg |-> groupname]
               /\ sent' = r.sent
               /\ ret' = Returned(r)
               /\ UNCHANGED <<client, pg, gor>>

CallGetRole ==
    /\ Ready
    /\ \E roleID \in RoleIDs, a1 \in RoleAnswers("5") :
           \E r \in {GetRole(client, TheGroup, roleID, <<a1>>)} :
               /\ call' = [op |-> "GetRole", arg |-> roleID]
               /\ sent' = r.sent
               /\ ret' = Returned(r)
               /\ UNCHANGED <<client, pg, gor>>

CallGetUserRole ==
    /\ Ready
    /\ \E userID \in UserIDs, a1 \in UserAnswers("1"), a2 \in UserRolesAnswers,
          a3 \in RoleAnswers("5") :
           \E r \in {GetUserRole(client, TheGroup, userID, <<a1, a2, a3>>)} :
               /\ call' = [op |-> "GetUserRole", arg |-> userID]
               /\ sent' = r.sent
               /\ ret' = Returned(r)
               /\ UNCHANGED <<client, pg, gor>>

CallJoinRequestAccept ==
    /\ Ready
    /\ \E userID \in UserIDs, a1 \in UserAnswers("1"), a2 \in MutationAnswers :
           \E r \in {JoinRequestAccept(client, TheGroup, userID, <<a1, a2>>)} :
               /\ call' = [op |-> "JoinRequestAccept", arg |-> userID]
               /\ sent' = r.sent
               /\ ret' = Returned(r)
               /\ UNCHANGED <<client, pg, gor>>

CallJoinRequestDecline ==
    /\ Ready
    /\ \E userID \in UserIDs, a1 \in UserAnswers("1"), a2 \in MutationAnswers :
           \E r \in {JoinRequestDecline(client, TheGroup, userID, <<a1, a2>>)} :
               /\ call' = [op |-> "JoinRequestDecline", arg |-> userID]
               /\ sent' = r.sent
               /\ ret' = Returned(r)
               /\ UNCHANGED <<client, pg, gor>>

CallUpdateUserRole ==
    /\ Ready
    /\ \E userID \in UserIDs, roleID \in RoleIDs, a1 \in UserAnswers("1"),
          a2 \in RoleAnswers("5"), a3 \in MutationAnswers :
           \E r \in {UpdateUserRole(client, TheGroup, userID, roleID, <<a1, a2, a3>>)} :
               /\ call' = [op |-> "UpdateUserRole", arg |-> userID, roleID |-> roleID]
               /\ sent' = r.sent
               /\ ret' = Returned(r)
               /\ UNCHANGED <<client, pg, gor>>

CallRemoveUser ==
    /\ Ready
    /\ \E userID \in UserIDs, a1 \in MutationAnswers :
           \E r \in {RemoveUser(client, TheGroup, userID, <<a1>>)} :
               /\ call' = [op |-> "RemoveUser", arg |-> userID]
               /\ sent' = r.sent
               /\ ret' = Returned(r)
               /\ UNCHANGED <<client, pg, gor>>

\* The join requests a listing may carry: the user with or without an id, the
\* time in UTC, with an offset, or not a time.
JoinRequestEntries ==
    {[user |-> <<"users/", "1">>, createTime |-> t] :
         t \in {"2024-05-01T09:30:00Z", "2024-05-01T12:00:00+02:00", "yesterday"}}
    \cup {[user |-> <<"users/">>, createTime |-> "2024-05-01T09:30:00Z"]}

JoinRequestsAnswers ==
    {NotFound, OK(GarbageBody)}
    \cup {OK(JSONBody("{groupJoinRequests}",
                      [shape |-> "object", groupJoinRequests |-> entries])) :
              entries \in SeqsUpTo(JoinRequestEntries, MaxJoinRequests)}

LookupAnswers ==
    [1..MaxJoinRequests -> {NotFound, OK(JSONBody("{user}", UserDoc("1")))}]

IconAnswers ==
    {NotFound, OK(GarbageBody), OK(JSONBody("{data:[]}", ListDoc(<<>>))),
     OK(JSONBody("{data:[i]}", ListDoc(<<[targetId |-> "7", imageUrl |-> "https://tr/i"]>>))),
     OK(JSONBody("{data:[i,j]}",
                 ListDoc(<<[targetId |-> "7", imageUrl |-> "https://tr/i"],
                           [targetId |-> "8", imageUrl |-> "https://tr/j"]>>)))}

CallGetGroupIcon ==
    /\ Ready
    /\ \E large \in BOOLEAN, isCircular \in BOOLEAN, a1 \in IconAnswers :
           \E r \in {GetGroupIcon(client, TheGroup, large, isCircular, <<a1>>)} :
               /\ call' = [op |-> "GetGroupIcon", large |-> large, isCircular |-> isCircular]
               /\ sent' = r.sent
               /\ ret' = Returned(r)
               /\ UNCHANGED <<client, pg, gor>>

CallGetJoinRequests ==
    /\ Ready
    /\ \E a1 \in JoinRequestsAnswers, as \in LookupAnswers :
           \E r \in {GetJoinRequests(client, TheGroup, <<a1>> \o as)} :
               /\ call' = [op |-> "GetJoinRequests"]
               /\ sent' = r.sent
               /\ ret' = Returned(r)
               /\ UNCHANGED <<client, pg, gor>>

(***************************************************************************)
(* The server of the paginated listings holds the items "1" .. "n"; a page *)
(* token names the position the next page starts at.  To each page request *)
(* it answers with some of the items that follow the position the request  *)
(* names, and with an empty token only when no item is left.               *)
(***************************************************************************)
TokenOf(pos) == "t" \o Itoa(pos)

PosOf(pairs) ==
    IF ValuesOf(pairs, "pageToken") = <<>> THEN 0
    ELSE CHOOSE pos \in 0..(MaxItems + 1) :
             TokenOf(pos) = ValuesOf(pairs, "pageToken")[1]

ItemDoc(op, i) ==
    IF op = "GetMembers" THEN [user |-> <<"users/", Itoa(i)>>]
    ELSE [id |-> Itoa(i), displayName |-> "Member", rank |-> "1"]

PageDoc(op, start, k, next) ==
    [shape |-> "object", nextPageToken |-> next, start |-> start]
    @@ (PageItemsField(op) :> [j \in 1..k |-> ItemDoc(op, start + j)])

TooManyRequests ==
    Resp(429, StatusText(429), JSONBody("{\"code\":\"RESOURCE_EXHAUSTED\"}",
                                        [shape |-> "object"]))

PageAnswers(op, n, request) ==
    LET start == PosOf(request.query)
    IN  {NetErr, TooManyRequests, OK(GarbageBody)}
        \cup {OK(JSONBody("{page}", PageDoc(op, start, k, TokenOf(start + k)))) :
                  k \in 0..(n - start)}
        \cup {OK(JSONBody("{page}", PageDoc(op, start, n - start, "")))}

ItemAnswers(op, id) ==
    IF op = "GetMembers"
    THEN {<<a1, a2, a3, a4>> :
              a1 \in {NotFound, OK(JSONBody("{user}", UserDoc(id)))},
              a2 \in {NotFound, OK(JSONBody("{user}", UserDoc(id)))},
              a3 \in {OK(JSONBody("{data:[]}", ListDoc(<<>>))),
                      OK(JSONBody("{data:[r]}",
                                  ListDoc(<<[group |-> [id |-> TheGroup.ID],
                                             role |-> [id |-> "5"]]>>)))},
              a4 \in {NotFound, OK(JSONBody("{role}", RoleDoc("5")))}}
    ELSE {<<a1>> : a1 \in {NotFound, OK(JSONBody("{role}", RoleDoc(id)))}}

NoResult == [val |-> NilValue, err |-> NilErr, panic |-> FALSE]

(***************************************************************************)
(* Time, in units of 100 ms.  The ticker of a listing is created at time 0 *)
(* and fires every Interval; its channel holds one tick, and a tick that   *)
(* fires while one is pending is dropped.  Time passes while the loop      *)
(* waits for a tick and while an exchange with the server is under way.    *)
(***************************************************************************)
Interval == 2

\* How long a page request, or the lookups of one item, may take.
Delays == 0..MaxDelay

\* The first firing time of the ticker after time t.
TickAfter(t) == ((t \div Interval) + 1) * Interval

\* The loop state p after d units of time have passed.
Elapse(p, d) ==
    IF p.nextTick <= p.now + d
    THEN [p EXCEPT !.now = @ + d, !.tickPending = TRUE, !.nextTick = TickAfter(p.now + d)]
    ELSE [p EXCEPT !.now = @ + d]

\* GetMembers / GetRoles up to the loop: the ticker is started.
StartListing(op, n) ==
    /\ call' = [op |-> op]
    /\ pg' = [pc |-> "wait", op |-> op, n |-> n, pageToken |-> "", acc |-> <<>>,
              page |-> <<>>, idx |-> 1, NextPage |-> "", npages |-> 0,
              served |-> <<>>, failed |-> {}, roleErr |-> NilErr,
              deferred |-> {}, stamps |-> <<>>,
              now |-> 0, nextTick |-> Interval, tickPending |-> FALSE, times |-> <<>>]
    /\ ret' = NoResult
    /\ sent' = <<>>
    /\ UNCHANGED <<client, gor>>

CallGetMembers == Ready /\ \E n \in 0..MaxItems : StartListing("GetMembers", n)

CallGetRoles == Ready /\ \E n \in 0..MaxItems : StartListing("GetRoles", n)

\* <-rateLimit.C: a pending tick is taken at once, otherwise the loop waits
\* for the ticker to fire.
Tick ==
    /\ pg.pc = "wait"
    /\ pg' = IF pg.tickPending
             THEN [pg EXCEPT !.pc = "fetch", !.tickPending = FALSE]
             ELSE [pg EXCEPT !.pc = "fetch", !.now = pg.nextTick,
                             !.nextTick = pg.nextTick + Interval]
    /\ UNCHANGED <<client, call, ret, sent, gor>>

\* The deferred resp.Body.Close() calls of the loop, run when the function
\* returns or panics: idxs are the positions in xs of the pages' exchanges.
RunDeferred(xs, idxs) == [i \in DOMAIN xs |-> IF i \in idxs THEN Close(xs[i]) ELSE xs[i]]

\* Mutant: the items of the earlier pages are returned with the error.
PageErrorKeepsItems(members, err) ==
    [val |-> [nil |-> FALSE, items |-> members], err |-> err, panic |-> FALSE]

\* return nil, err: the named result is nil, whatever was accumulated.
PageError(members, err) == [val |-> NilValue, err |-> err, panic |-> FALSE]

\* The page request and the decoding of its response.
PageRequest ==
    /\ pg.pc = "fetch"
    /\ pg.npages < MaxPageReqs
    /\ LET query == PageQuery(pg.op, pg.pageToken)
           request == RoundTrip(client, newHttpRequest("GET", PageURL(pg.op, TheGroup),
                                                       NilBody, <<>>, query))
       IN  \E a \in PageAnswers(pg.op, pg.n, request), d \in Delays :
             \E r \in {ClientGet(client, PageURL(pg.op, TheGroup), <<>>, query, a)},
                asked \in {[pg EXCEPT !.npages = @ + 1, !.times = Append(@, pg.now),
                                     !.stamps = Append(@, pg.now)]} :
               LET doc == r.ret.resp.Body.doc
               IN  IF ~r.ret.err.nil
                      THEN /\ sent' = RunDeferred(Append(sent, r.x), pg.deferred)
                           /\ ret' = PageError(pg.acc, r.ret.err)
                           /\ pg' = Elapse([asked EXCEPT !.pc = "done"], d)
                      ELSE IF doc.shape = "garbage"
                      THEN /\ sent' = RunDeferred(Append(sent, r.x),
                                                  pg.deferred \cup {Len(sent) + 1})
                           /\ ret' = PageError(pg.acc, ErrDecode)
                           /\ pg' = Elapse([asked EXCEPT !.pc = "done"], d)
                      ELSE /\ sent' = Append(sent, r.x)
                           /\ ret' = ret
                           /\ pg' = Elapse([asked EXCEPT
                                        !.pc = "items",
                                        !.deferred = @ \cup {Len(sent) + 1},
                                        !.page = Field(doc, PageItemsField(pg.op), <<>>),
                                        !.idx = 1,
                                        !.NextPage = Field(doc, "nextPageToken", ""),
                                        !.served = Append(@,
                                            [start |-> doc.start,
                                             len |-> Len(Field(doc, PageItemsField(pg.op),
                                                               <<>>)),
                                             next |-> Field(doc, "nextPageToken", "")])],
                                        d)
    /\ UNCHANGED <<client, call, gor>>

\* The times at which m requests made one after the other from time t on are
\* sent, when they take d together: each takes its share.
IssueTimes(t, d, m) == [j \in 1..m |-> t + ((d * (j - 1)) \div m)]

\* The loop state after the iteration st, whose lookups took d.
AfterItem(st, d) ==
    /\ IF st.panic
       THEN /\ sent' = RunDeferred(sent \o st.sent, pg.deferred)
            /\ pg' = Elapse([pg EXCEPT !.pc = "panic", !.roleErr = st.roleErr,
                                       !.stamps = @ \o IssueTimes(pg.now, d,
                                                                  Len(st.sent))], d)
            /\ ret' = [val |-> NilValue, err |-> NilErr, panic |-> TRUE]
       ELSE /\ sent' = sent \o st.sent
            /\ pg' = Elapse([pg EXCEPT
                                !.acc = st.acc, !.idx = @ + 1,
                                !.failed = IF st.skipped
                                           THEN @ \cup {pg.served[Len(pg.served)].start
                                                        + pg.idx}
                                           ELSE @,
                                !.roleErr = IF st.roleErr.nil THEN @ ELSE st.roleErr,
                                !.stamps = @ \o IssueTimes(pg.now, d, Len(st.sent))],
                            d)
            /\ ret' = ret
    /\ UNCHANGED <<client, call, gor>>

\* One iteration of GetMembers' loop over the memberships of the page.
MemberLookup ==
    /\ pg.pc = "items" /\ pg.op = "GetMembers"
    /\ pg.idx <= Len(pg.page)
    /\ \E answers \in ItemAnswers(pg.op, MemberID(pg.page[pg.idx])), d \in Delays :
           \E st \in {ProcessMember(client, TheGroup, pg.acc, pg.page[pg.idx], answers)} :
               AfterItem(st, d)

\* One iteration of GetRoles' loop over the roles of the page.
RoleLookup ==
    /\ pg.pc = "items" /\ pg.op = "GetRoles"
    /\ pg.idx <= Len(pg.page)
    /\ \E answers \in ItemAnswers(pg.op, pg.page[pg.idx].id), d \in Delays :
           \E st \in {ProcessRole(client, TheGroup, pg.acc, pg.page[pg.idx], answers)} :
               AfterItem(st, d)

\* The end of the loop body: return what was collected, or go for the next page.
PageDone ==
    /\ pg.pc = "items"
    /\ pg.idx > Len(pg.page)
    /\ IF pg.NextPage = ""
       THEN /\ pg' = [pg EXCEPT !.pc = "done"]
            /\ ret' = [val |-> pg.acc, err |-> NilErr, panic |-> FALSE]
            /\ sent' = RunDeferred(sent, pg.deferred)
       ELSE /\ pg' = [pg EXCEPT !.pc = "wait", !.pageToken = pg.NextPage]
            /\ ret' = ret
            /\ sent' = sent
    /\ UNCHANGED <<client, call, gor>>

Next ==
    \/ CallCreate
    \/ CallGet
    \/ CallPost
    \/ CallPatch
    \/ CallDelete
    \/ CallGetUserByID
    \/ CallGetUserByUsername
    \/ CallGetGroupByID
    \/ CallGetGroupByGroupname
    \/ CallGetRole
    \/ CallGetUserRole
    \/ CallJoinRequestAccept
    \/ CallJoinRequestDecline
    \/ CallUpdateUserRole
    \/ CallRemoveUser
    \/ CallGetJoinRequests
    \/ CallGetGroupIcon
    \/ CallGetMembers
    \/ CallGetRoles
    \/ Tick
    \/ PageRequest
    \/ MemberLookup
    \/ RoleLookup
    \/ PageDone

Spec == Init /\ [][Next]_vars

(***************************************************************************)
(* Operations run by goroutines that share the client.  A goroutine is     *)
(* scheduled between its exchanges with the server; each exchange reads    *)
(* the client as it is at that moment.                                     *)
(***************************************************************************)
\* What a goroutine is asked to do: the operation, its argument and the
\* answers the server gives to its requests, in order.
Jobs ==
    {[op |-> "GetUserByID", arg |-> id, answers |-> <<a>>] :
         id \in UserIDs, a \in UserAnswers("1")}
    \cup {[op |-> "GetUserByUsername", arg |-> "builderman", answers |-> <<a1, a2>>] :
              a1 \in {NotFound, OK(JSONBody("{data:[]}", ListDoc(<<>>))),
                      OK(JSONBody("{data:[u]}",
                                  ListDoc(<<[id |-> "1", name |-> "builderman"]>>)))},
              a2 \in UserAnswers("1")}

\* Where the operation of job stands after its transport calls returned rets:
\* the call it makes next, or that it returns.
NextCall(job, rets) ==
    IF job.arg = "" THEN [do |-> "return"]
    ELSE IF job.op = "GetUserByID"
    THEN IF rets = <<>>
         THEN [do |-> "get", methodURL |-> URL(EndPointCloudUsers \o job.arg, <<>>)]
         ELSE [do |-> "return"]
    ELSE IF rets = <<>>
    THEN [do |-> "post", methodURL |-> URL(EndpointLegacyGetUsers, <<>>)]
    ELSE IF /\ Len(rets) = 1 /\ rets[1].err.nil
            /\ rets[1].resp.Body.doc.shape # "garbage"
            /\ Len(Field(rets[1].resp.Body.doc, "data", <<>>)) # 0
    THEN [do |-> "get",
          methodURL |-> URL(EndPointCloudUsers
                            \o DecodeUser(Field(rets[1].resp.Body.doc, "data", <<>>)[1]).ID,
                            <<>>)]
    ELSE [do |-> "return"]

\* The user decoded from what the get of users/{id} returned.
UserFrom(r) ==
    IF ~r.err.nil THEN [val |-> NilValue, err |-> r.err, panic |-> FALSE]
    ELSE IF r.resp.Body.doc.shape = "garbage"
    THEN [val |-> NilValue, err |-> ErrDecode, panic |-> FALSE]
    ELSE [val |-> DecodeUser(r.resp.Body.doc), err |-> NilErr, panic |-> FALSE]

\* What the operation of job returns once NextCall says it returns.
Outcome(job, rets) ==
    IF job.arg = ""
    THEN [val |-> NilValue, panic |-> FALSE,
          err |-> IF job.op = "GetUserByID" THEN ErrNoUserID ELSE ErrNoUsername]
    ELSE IF job.op = "GetUserByID" THEN UserFrom(rets[1])
    ELSE IF ~rets[1].err.nil
    THEN [val |-> NilValue, err |-> rets[1].err, panic |-> FALSE]
    ELSE IF rets[1].resp.Body.doc.shape = "garbage"
    THEN [val |-> NilValue, err |-> ErrDecode, panic |-> FALSE]
    ELSE IF Len(rets) = 1
    THEN [val |-> NilValue, err |-> ErrInvalidUsername, panic |-> FALSE]
    ELSE UserFrom(rets[2])

\* The operation of a job run alone on the client c.
RunJob(c, job) ==
    IF job.op = "GetUserByID" THEN GetUserByID(c, job.arg, job.answers)
    ELSE GetUserByUsername(c, job.arg, job.answers)

\* go func() { ... }(): goroutine i starts an operation on the shared client.
GoStart(i) ==
    /\ pg.pc = "idle" /\ ~client.nil /\ call.op = "Create"
    /\ gor[i].pc = "idle"
    /\ \E job \in Jobs :
           gor' = [gor EXCEPT ![i] = [pc |-> "run", job |-> job, sent |-> <<>>,
                                      rets |-> <<>>, ret |-> NoResult]]
    /\ UNCHANGED <<client, call, ret, sent, pg>>

\* The next transport call of goroutine i's operation, on the client as it
\* is now.
GoExchange(i) ==
    /\ gor[i].pc = "run"
    /\ NextCall(gor[i].job, gor[i].rets).do # "return"
    /\ \E c \in {NextCall(gor[i].job, gor[i].rets)} :
         \E r \in {IF c.do = "get"
                   THEN ClientGet(client, c.methodURL, <<>>, <<>>,
                                  gor[i].job.answers[Len(gor[i].rets) + 1])
                   ELSE ClientPost(client, c.methodURL,
                                   [nil |-> FALSE, usernames |-> <<gor[i].job.arg>>,
                                    excludeBannedUsers |-> TRUE],
                                   <<>>, <<>>, gor[i].job.answers[Len(gor[i].rets) + 1])} :
           /\ gor' = [gor EXCEPT ![i].sent = Append(@, r.x),
                                 ![i].rets = Append(@, r.ret)]
           /\ sent' = Append(sent, r.x)
    /\ UNCHANGED <<client, call, ret, pg>>

\* Goroutine i's operation returns.
GoReturn(i) ==
    /\ gor[i].pc = "run"
    /\ NextCall(gor[i].job, gor[i].rets).do = "return"
    /\ gor' = [gor EXCEPT ![i].pc = "done",
                          ![i].ret = Outcome(gor[i].job, gor[i].rets)]
    /\ UNCHANGED <<client, call, ret, sent, pg>>

NextConcurrent ==
    \/ Next
    \/ \E i \in Goroutines : GoStart(i)
    \/ \E i \in Goroutines : GoExchange(i)
    \/ \E i \in Goroutines : GoReturn(i)

SpecConcurrent == Init /\ [][NextConcurrent]_vars

(***************************************************************************)
(* Properties.                                                             *)
(***************************************************************************)
TransportOps == {"get", "post", "patch", "delete"}

IsTransportCall == call.op \in TransportOps /\ Len(sent) = 1

\* The exchange of a transport call got a response with a status other than 200.
Non200 ==
    /\ IsTransportCall
    /\ sent[1].ans.kind = "resp"
    /\ sent[1].ans.StatusCode # 200

\* What the method handed back besides the error: a response, or true.
HandsBackValue ==
    IF call.op \in {"get", "post"} THEN ~ret.resp.nil ELSE ret.ok

\* C1: Create returns (nil, ErrNoAPIKey) for the empty key, a non-nil client
\* with a nil error for every other key, and never a client with an error.
C1_CreateContract ==
    call.op = "Create" =>
        /\ call.apikey = "" => ret.client.nil /\ ret.err = ErrNoAPIKey
        /\ call.apikey # "" => ~ret.client.nil /\ ret.err.nil
        /\ ~(~ret.client.nil /\ ~ret.err.nil)

C1_Witness == call.op = "Create" /\ call.apikey = "" /\ ret.err = ErrNoAPIKey

\* C2: every request that reaches the underlying transport carries X-API-KEY
\* equal to the client's key, whatever headers the caller supplied, and the
\* library's User-Agent.
C2_CredentialOnEveryRequest ==
    \A i \in DOMAIN sent :
        /\ HeaderGet(sent[i].req.header, "X-API-KEY") = client.APIKey
        /\ HeaderGet(sent[i].req.header, "User-Agent") = robloxGoUserAgent

C2_Witness ==
    /\ call.op = "post"
    /\ Len(sent) = 1
    /\ \E i \in DOMAIN call.headers : call.headers[i].Key = "x-api-key"
    /\ HeaderGet(sent[1].req.header, "X-API-KEY") = "key2"

ValidatedOps ==
    {"GetUserByID", "GetUserByUsername", "GetGroupByID", "GetGroupByGroupname",
     "GetRole", "GetUserRole", "JoinRequestAccept", "JoinRequestDecline",
     "UpdateUserRole", "RemoveUser"}

BooleanOps == {"JoinRequestAccept", "JoinRequestDecline", "RemoveUser"}

\* The validation error an empty argument of the call is answered with.
ArgumentError ==
    CASE call.op = "GetUserByUsername" -> ErrNoUsername
      [] call.op = "GetGroupByID" -> ErrNoGroupID
      [] call.op = "GetGroupByGroupname" -> ErrNoGroupname
      [] call.op = "GetRole" -> ErrNoRoleID
      [] call.op = "UpdateUserRole" /\ call.arg # "" -> ErrNoRoleID
      [] OTHER -> ErrNoUserID

HasEmptyArgument ==
    /\ call.op \in ValidatedOps
    /\ \/ call.arg = ""
       \/ call.op = "UpdateUserRole" /\ call.roleID = ""

\* C3: a call with an empty identifier or key returns the matching validation
\* error with a nil or false result and issues no HTTP request.
C3_EmptyArgumentRejected ==
    HasEmptyArgument =>
        /\ ret.err = ArgumentError
        /\ IF call.op \in BooleanOps THEN ret.val = FALSE ELSE ret.val = NilValue
        /\ ~ret.panic
        /\ sent = <<>>

C3_Witness ==
    /\ call.op = "UpdateUserRole"
    /\ call.arg = "1" /\ call.roleID = ""
    /\ ret.err = ErrNoRoleID
    /\ sent = <<>>

\* C4: the error of every non-200 response contains the numeric status code;
\* for a documented code it also contains the table's description of that
\* code; for any other code an error is still produced and names the code.
C4_ErrorNamesCodeAndDescription ==
    Non200 =>
        /\ ~ret.err.nil
        /\ Contains(ret.err.msg, Itoa(sent[1].ans.StatusCode))
        /\ sent[1].ans.StatusCode \in DocumentedCodes =>
               Contains(ret.err.msg, httpResponses(sent[1].ans.StatusCode).Error)

\* C5: get and post hand back a response with a nil error exactly when the
\* status is 200, patch and delete return true exactly when it is 200, and
\* every other status, 201 and 204 included, yields an error.
C5_SuccessIsExactly200 ==
    (IsTransportCall /\ sent[1].ans.kind = "resp") =>
        /\ (HandsBackValue /\ ret.err.nil) <=> sent[1].ans.StatusCode = 200
        /\ sent[1].ans.StatusCode # 200 => ~ret.err.nil /\ ~HandsBackValue

C5_Witness ==
    /\ call.op = "get"
    /\ Non200
    /\ sent[1].ans.StatusCode = 204
    /\ ret.resp.nil /\ ~ret.err.nil

\* C6: on a non-200 response the error of get, post, patch and delete alike
\* contains the raw text of the response body, and no value is handed back.
C6_ErrorCarriesBody ==
    (Non200 /\ sent[1].ans.readable) =>
        /\ ~HandsBackValue
        /\ Contains(ret.err.msg, sent[1].ans.Body.text)

SuppliedKeys(parameters) == {parameters[i].Key : i \in DOMAIN parameters}

\* The value of the last supplied parameter with key k.
LastSupplied(parameters, k) ==
    parameters[CHOOSE i \in DOMAIN parameters :
                   /\ parameters[i].Key = k
                   /\ \A j \in DOMAIN parameters : parameters[j].Key = k => j <= i].Value

PairKeys(pairs) == {pairs[i][1] : i \in DOMAIN pairs}

\* C7: in the query of the URL sent, a key of the base URL's query that the
\* caller did not supply keeps its values, a key the caller supplied has the
\* caller's value, also when the base URL had the key, and no other key appears.
C7_QueryMerge ==
    IsTransportCall =>
        LET base == call.methodURL.query
            final == sent[1].req.query
        IN  /\ PairKeys(final) = PairKeys(base) \cup SuppliedKeys(call.parameters)
            /\ \A k \in PairKeys(final) :
                   IF k \in SuppliedKeys(call.parameters)
                   THEN ValuesOf(final, k) = <<LastSupplied(call.parameters, k)>>
                   ELSE ValuesOf(final, k) = ValuesOf(base, k)

C7_Witness ==
    /\ call.op = "get"
    /\ Len(sent) = 1
    /\ ValuesOf(call.methodURL.query, "a") = <<"0">>
    /\ ValuesOf(call.methodURL.query, "c") = <<"0", "9">>
    /\ "a" \in SuppliedKeys(call.parameters)
    /\ "b" \in SuppliedKeys(call.parameters)
    /\ ValuesOf(sent[1].req.query, "a") = <<"2">>

\* C8: a request carries Content-Type: application/json exactly when it has a
\* body; GET and DELETE requests have neither, POST and PATCH requests with a
\* body have the header.
C8_ContentTypeIffBody ==
    \A i \in DOMAIN sent :
        LET r == sent[i].req
        IN  /\ ("Content-Type" \in DOMAIN r.header) <=> r.hasBody
            /\ r.hasBody => HeaderGet(r.header, "Content-Type") = "application/json"
            /\ r.method \in {"GET", "DELETE"} => ~r.hasBody

C8_Witness ==
    /\ call.op \in {"post", "patch"}
    /\ Len(sent) = 1
    /\ sent[1].req.hasBody
    /\ HeaderGet(sent[1].req.header, "Content-Type") = "application/json"

\* The item the listing returns for the server's i-th item.
ExpectedItem(op, i) ==
    IF op = "GetMembers"
    THEN [ID |-> Itoa(i), Username |-> "user" \o Itoa(i),
          GroupRole |-> DecodeRole(RoleDoc("5"))]
    ELSE DecodeRole(RoleDoc(Itoa(i)))

\* The positions 1 .. n without those whose lookup failed, in order.
KeptPositions(n, failed) == SelectSeq([i \in 1..n |-> i], LAMBDA i : i \notin failed)

ExpectedItems(op, n, failed) ==
    [j \in 1..Len(KeptPositions(n, failed)) |->
        ExpectedItem(op, KeptPositions(n, failed)[j])]

\* The pages served are P1 .. Pn: each starts where the one before ended, all
\* but the last carry a token, the last carries none.
ServedInOrder ==
    /\ pg.served # <<>>
    /\ pg.served[1].start = 0
    /\ \A j \in 1..(Len(pg.served) - 1) :
           /\ pg.served[j].next # ""
           /\ pg.served[j + 1].start = pg.served[j].start + pg.served[j].len
    /\ pg.served[Len(pg.served)].next = ""

PageRequestsSent ==
    Len(SelectSeq(sent, LAMBDA x : x.req.path = PageURL(pg.op, TheGroup).path))

ListingReturned == pg.pc = "done" /\ call.op \in {"GetMembers", "GetRoles"}

\* The number of items of served page j whose lookup failed.
FailedIn(j) ==
    Cardinality({i \in pg.failed :
                    /\ i > pg.served[j].start
                    /\ i <= pg.served[j].start + pg.served[j].len})

\* C9: when the pages end with an empty token and every per-item lookup
\* succeeds, the listing returns a nil error and the mapped items of the pages
\* in page order, and asks for no page after the last.
C9_PagesConcatenated ==
    (ListingReturned /\ ret.err.nil /\ pg.failed = {}) =>
        /\ ret.val = ExpectedItems(pg.op, pg.n, {})
        /\ ServedInOrder
        /\ PageRequestsSent = Len(pg.served)

C9_Witness ==
    /\ ListingReturned /\ call.op = "GetMembers"
    /\ ret.err.nil /\ pg.failed = {}
    /\ Len(pg.served) = 2
    /\ pg.served[1].len >= 1 /\ pg.served[2].len >= 1
    /\ Len(ret.val) = pg.n

\* C10: when the lookup fails for exactly one of the N items of a page, the
\* page contributes the other N-1 items in their order, the following pages
\* are still fetched, and the listing returns a nil error.
C10_FailedItemSkipped ==
    (ListingReturned /\ ~ret.panic /\ PageRequestsSent = Len(pg.served)
        /\ \E j \in DOMAIN pg.served : FailedIn(j) = 1) =>
        /\ ret.err.nil
        /\ ret.val = ExpectedItems(pg.op, pg.n, pg.failed)
        /\ ServedInOrder

C10_Witness ==
    /\ ListingReturned /\ call.op = "GetMembers"
    /\ ret.err.nil
    /\ Len(pg.served) = 1
    /\ pg.served[1].len = 2 /\ FailedIn(1) = 1
    /\ Len(ret.val) = 1

\* C11: when a member's account lookup succeeds and the lookup of the member's
\* role fails, GetMembers skips the member and goes on: it does not abort, and
\* when the pages end it returns the list with a nil error.
C11_FailedRoleLookupSkipped ==
    (call.op = "GetMembers" /\ pg.pc # "idle" /\ ~pg.roleErr.nil) =>
        /\ pg.pc # "panic" /\ ~ret.panic
        /\ (pg.pc = "done" /\ PageRequestsSent = Len(pg.served)) =>
               ret.err.nil /\ ServedInOrder

\* The last exchange made was a page request that got no 200 response.
PageRequestFailed ==
    /\ sent # <<>>
    /\ sent[Len(sent)].req.path = PageURL(pg.op, TheGroup).path
    /\ \/ sent[Len(sent)].ans.kind = "neterr"
       \/ sent[Len(sent)].ans.StatusCode # 200

\* C12: when the k-th page request gets a non-200 response or a network error,
\* the listing returns that error with a nil list, whatever the pages before
\* contributed, and the failed request is the last one made: the page is not
\* asked for again.
C12_PageErrorEndsListing ==
    (call.op \in {"GetMembers", "GetRoles"} /\ PageRequestFailed) =>
        /\ pg.pc = "done"
        /\ ret.val = NilValue
        /\ ~ret.err.nil
        /\ ret.err = (IF sent[Len(sent)].ans.kind = "neterr" THEN ErrNetwork
                      ELSE httpErrorCheck(sent[Len(sent)].ans))
        /\ PageRequestsSent = Len(pg.served) + 1

C12_Witness ==
    /\ call.op = "GetMembers" /\ pg.pc = "done"
    /\ PageRequestFailed
    /\ sent[Len(sent)].ans.kind = "resp" /\ sent[Len(sent)].ans.StatusCode = 429
    /\ Len(pg.served) = 2
    /\ Len(pg.acc) >= 2
    /\ ret.val = NilValue /\ ~ret.err.nil

\* The memberships endpoint answered with a first page that carries a token
\* and a second page that carries none, and the call has come to its end.
TwoPageScenario ==
    /\ call.op = "GetMembers"
    /\ \/ pg.pc = "panic"
       \/ pg.pc = "done" /\ ret.err.nil
    /\ Len(pg.served) >= 1 /\ pg.served[1].next # ""
    /\ Len(pg.served) >= 2 => pg.served[2].next = ""

\* C13: with a first page carrying a token and a second page carrying none,
\* GetMembers makes exactly two requests to the memberships endpoint, the
\* second at least 200 ms after the first, and returns the members of both
\* pages whose lookups succeed, page 1's before page 2's.
C13_TwoPagesSpaced ==
    TwoPageScenario =>
        /\ pg.pc = "done"
        /\ PageRequestsSent = 2 /\ Len(pg.times) = 2
        /\ pg.times[2] - pg.times[1] >= Interval
        /\ ServedInOrder
        /\ ret.val = ExpectedItems(pg.op, pg.n, pg.failed)

\* The page requests made so far, in order.
PageRequests == SelectSeq(sent, LAMBDA x : x.req.path = PageURL(pg.op, TheGroup).path)

\* C14: the first page request carries maxPageSize and no pageToken, every
\* later one carries the nextPageToken of the page response just before it,
\* and maxPageSize is 100 for the memberships and 20 for the roles.
C14_CursorAndPageSize ==
    (call.op \in {"GetMembers", "GetRoles"} /\ pg.pc # "idle") =>
        \A i \in DOMAIN PageRequests :
            LET query == PageRequests[i].req.query
            IN  /\ PairKeys(query) \subseteq {"maxPageSize", "pageToken"}
                /\ ValuesOf(query, "maxPageSize")
                       = (IF call.op = "GetMembers" THEN <<"100">> ELSE <<"20">>)
                /\ ValuesOf(query, "pageToken")
                       = (IF i = 1 THEN <<>> ELSE <<pg.served[i - 1].next>>)
                /\ i > 1 => pg.served[i - 1].next # ""

C14_Witness ==
    /\ call.op = "GetRoles" /\ pg.pc = "done"
    /\ Len(PageRequests) = 3
    /\ ValuesOf(PageRequests[1].req.query, "pageToken") = <<>>
    /\ ValuesOf(PageRequests[2].req.query, "pageToken") = <<"t1">>
    /\ ValuesOf(PageRequests[3].req.query, "pageToken") = <<"t2">>
    /\ ValuesOf(PageRequests[3].req.query, "maxPageSize") = <<"20">>

\* The candidate list a by-name lookup got from the legacy endpoint.
Candidates == Field(sent[1].ans.Body.doc, "data", <<>>)

\* The legacy lookup of a by-name call was answered with a candidate list.
LegacyAnswered ==
    /\ call.arg # ""
    /\ sent # <<>>
    /\ sent[1].ans.kind = "resp" /\ sent[1].ans.StatusCode = 200
    /\ sent[1].ans.Body.doc.shape = "object"

\* C15: GetGroupByGroupname(k) goes on to the canonical fetch exactly when the
\* candidate list is non-empty and its first candidate's name equals k to the
\* letter; otherwise, also when a later candidate carries the name, it returns
\* (nil, ErrInvalidGroupname) and makes no second request.
C15_FirstCandidateDecides ==
    (call.op = "GetGroupByGroupname" /\ LegacyAnswered) =>
        IF Candidates # <<>> /\ Candidates[1].name = call.arg
        THEN /\ Len(sent) = 2
             /\ sent[2].req.path = EndpointCloudGroups \o Candidates[1].id
        ELSE /\ Len(sent) = 1
             /\ ret.val = NilValue /\ ret.err = ErrInvalidGroupname

C15_Witness ==
    /\ call.op = "GetGroupByGroupname" /\ LegacyAnswered
    /\ Len(Candidates) = 2
    /\ Candidates[1].name # call.arg /\ Candidates[2].name = call.arg
    /\ Len(sent) = 1
    /\ ret.err = ErrInvalidGroupname

\* C16: GetUserByUsername(k) returns the invalid-username error with a nil
\* user, and makes no canonical request, when the candidate list is empty or
\* its first candidate's name differs from k.
C16_UsernameMismatchRejected ==
    (call.op = "GetUserByUsername" /\ LegacyAnswered
        /\ (Candidates = <<>> \/ Candidates[1].name # call.arg)) =>
        /\ Len(sent) = 1
        /\ ret.val = NilValue /\ ret.err = ErrInvalidUsername

\* C17: the Group a successful GetGroupByGroupname(k) returns carries the first
\* candidate's name, which is k, whatever display name the canonical payload
\* has; its identifier is the first candidate's, the one the canonical fetch
\* used; its other fields are the canonical payload's.
C17_NameAndIDFromCandidate ==
    (call.op = "GetGroupByGroupname" /\ ret.err.nil) =>
        /\ ~ret.val.nil
        /\ ret.val.Groupname = Candidates[1].name
        /\ ret.val.Groupname = call.arg
        /\ ret.val.ID = Candidates[1].id
        /\ sent[2].req.path = EndpointCloudGroups \o Candidates[1].id
        /\ ret.val.OwnerID = TrimPrefix(sent[2].ans.Body.doc.owner)

\* C17 (amended): the Group a successful GetGroupByGroupname(k) returns carries
\* the first candidate's name, which is k, whatever display name the canonical
\* payload has; the canonical fetch is made at the first candidate's
\* identifier, and every other field, the identifier included, is the
\* canonical payload's (the owner with its prefix stripped once).
C17_NameFromCandidate ==
    (call.op = "GetGroupByGroupname" /\ ret.err.nil) =>
        /\ ~ret.val.nil
        /\ ret.val.Groupname = Candidates[1].name
        /\ ret.val.Groupname = call.arg
        /\ sent[2].req.path = EndpointCloudGroups \o Candidates[1].id
        /\ ret.val.ID = sent[2].ans.Body.doc.id
        /\ ret.val.OwnerID = TrimPrefix(sent[2].ans.Body.doc.owner)

C17_Witness ==
    /\ call.op = "GetGroupByGroupname" /\ ret.err.nil
    /\ sent[2].ans.Body.doc.displayName # call.arg
    /\ ret.val.Groupname = "Devs"
    /\ ret.val.ID = "9"
    /\ Candidates[1].id = "7"

\* C18: the owner of a Group returned by GetGroupByID or GetGroupByGroupname
\* never begins with "users/", and normalising it again changes nothing.
C18_OwnerNormalised ==
    (call.op \in {"GetGroupByID", "GetGroupByGroupname"} /\ ret.err.nil) =>
        /\ ret.val.OwnerID = <<>> \/ Head(ret.val.OwnerID) # "users/"
        /\ TrimPrefix(ret.val.OwnerID) = ret.val.OwnerID

BoolOps == {"JoinRequestAccept", "JoinRequestDecline", "RemoveUser"}

PublicOps ==
    BoolOps \cup {"GetUserByID", "GetUserByUsername", "GetGroupByID", "GetGroupByGroupname",
                  "GetMembers", "GetRoles", "GetRole", "GetUserRole", "UpdateUserRole",
                  "GetJoinRequests"}

\* C19: a public operation that fails returns: it hands back a non-nil error,
\* and with a non-nil error the result is nil, empty or false.
C19_FailureReturnsErrorOnly ==
    (call.op \in PublicOps) =>
        /\ ~ret.panic
        /\ ~ret.err.nil =>
               IF call.op \in BoolOps THEN ret.val = FALSE ELSE ret.val = NilValue

\* The call under way, a public operation, has returned or panicked.
OperationEnded ==
    /\ call.op \in PublicOps
    /\ call.op \in {"GetMembers", "GetRoles"} => pg.pc \in {"done", "panic"}

\* C20: when an operation returns, the body of every response it received has
\* been closed, whether it returns a result, a decode error or the error of a
\* response whose status is not 200.
C20_BodiesClosed ==
    OperationEnded =>
        \A i \in DOMAIN sent : sent[i].ans.kind = "resp" => sent[i].closed

\* The requests and the answers of the exchanges xs.
Exchanged(xs) == [k \in DOMAIN xs |-> [req |-> xs[k].req, ans |-> xs[k].ans]]

\* The requests of every goroutine carry the credential Create was given, and
\* a goroutine that has returned made the requests and returned the result
\* of its operation run alone on the client Create returned.
AsRunAlone ==
    \A i \in Goroutines :
        gor[i].pc # "idle" =>
            /\ \A k \in DOMAIN gor[i].sent :
                   HeaderGet(gor[i].sent[k].req.header, "X-API-KEY") = call.apikey
            /\ gor[i].pc = "done" =>
                   /\ Exchanged(gor[i].sent)
                          = Exchanged(RunJob(ret.client, gor[i].job).sent)
                   /\ gor[i].ret = Returned(RunJob(ret.client, gor[i].job))

\* C21: after Create no step changes the client, whether the operations run
\* one at a time or concurrently; concurrent operations send the credential
\* with every request and return what they return when run alone.
C21_ClientReadOnly ==
    /\ []AsRunAlone
    /\ [][call.op # "none" => client' = client]_vars

\* Two goroutines have returned after their requests were interleaved.
C21_Witness ==
    /\ \A i \in {1, 2} : gor[i].pc = "done" /\ gor[i].job.op = "GetUserByUsername"
    /\ gor[1].job.answers # gor[2].job.answers
    /\ Len(sent) = 4
    /\ sent[1].req.method = "POST" /\ sent[2].req.method = "POST"
    /\ ~gor[1].ret.err.nil /\ gor[2].ret.err.nil

\* The entries of the join-request listing the server answered with.
ListedRequests == Field(sent[1].ans.Body.doc, "groupJoinRequests", <<>>)

EntryID(j) == Join(TrimPrefix(ListedRequests[j].user))

\* The position in sent of the account lookup of entry j, which is made when
\* the entry names a user.
LookupOf(j) == 1 + Cardinality({i \in 1..j : EntryID(i) # ""})

LookupSucceeded(j) ==
    /\ EntryID(j) # ""
    /\ sent[LookupOf(j)].ans.StatusCode = 200

\* The positions of the entries whose account lookup succeeded, in order.
KeptRequests == SelectSeq([j \in 1..Len(ListedRequests) |-> j], LookupSucceeded)

ExpectedCreatedAt(text) ==
    CASE text = "2024-05-01T09:30:00Z" -> "2024-05-01T09:30:00Z"
      [] text = "2024-05-01T12:00:00+02:00" -> "2024-05-01T10:00:00Z"
      [] OTHER -> ZeroTime

JoinRequestsListed ==
    /\ call.op = "GetJoinRequests"
    /\ sent[1].ans.kind = "resp" /\ sent[1].ans.StatusCode = 200
    /\ sent[1].ans.Body.doc.shape # "garbage"

\* C22: GetJoinRequests makes one listing request and then one account lookup
\* per listed request, in order; it returns a nil error and, in listing
\* order, the entries whose lookup succeeded, an entry whose createTime is
\* no RFC 3339 time with the zero time.
C22_JoinRequestsListed ==
    JoinRequestsListed =>
        /\ sent[1].req.method = "GET"
        /\ sent[1].req.path = EndpointCloudGroups \o TheGroup.ID \o "/join-requests"
        /\ sent[1].req.query = <<>>
        /\ Len(sent) = 1 + Cardinality({j \in DOMAIN ListedRequests : EntryID(j) # ""})
        /\ \A j \in DOMAIN ListedRequests :
               EntryID(j) # "" =>
                   sent[LookupOf(j)].req.path = EndPointCloudUsers \o EntryID(j)
        /\ ret.err.nil /\ ~ret.panic
        /\ Len(ret.val) = Len(KeptRequests)
        /\ \A k \in DOMAIN KeptRequests :
               /\ ret.val[k].ID = EntryID(KeptRequests[k])
               /\ ret.val[k].Username = sent[LookupOf(KeptRequests[k])].ans.Body.doc.name
               /\ ret.val[k].CreatedAt
                      = ExpectedCreatedAt(ListedRequests[KeptRequests[k]].createTime)

\* A listing of two requests: the lookup of the first fails, the second has
\* no valid time and is returned with the zero time.
C22_Witness ==
    /\ JoinRequestsListed
    /\ Len(ListedRequests) = 2 /\ Len(sent) = 3
    /\ sent[2].ans.StatusCode = 404
    /\ ListedRequests[2].createTime = "yesterday"
    /\ ret.val = <<[ID |-> "1", Username |-> "user1", CreatedAt |-> ZeroTime]>>

\* C23: RemoveUser with a user ID sends one DELETE without a body to
\* https://groups.roblox.com/v1/groups/{groupID}/users/{userID} and returns
\* (true, nil) exactly when the answer has status 200.
C23_RemoveUserRequest ==
    (call.op = "RemoveUser" /\ call.arg # "") =>
        /\ Len(sent) = 1
        /\ sent[1].req.method = "DELETE"
        /\ ~sent[1].req.hasBody
        /\ sent[1].req.path
               = "https://groups.roblox.com/v1/groups/" \o TheGroup.ID \o "/users/" \o call.arg
        /\ (ret.val = TRUE /\ ret.err.nil)
               <=> (sent[1].ans.kind = "resp" /\ sent[1].ans.StatusCode = 200)

\* A step of the listing under way.
ListingStep == Tick \/ PageRequest \/ MemberLookup \/ RoleLookup \/ PageDone

\* The answer to the last page request ends the loop: an empty
\* nextPageToken, a status other than 200 or a body that does not decode.
LastPageAnswerFinal ==
    LET x == PageRequests[Len(PageRequests)]
    IN  \/ x.ans.kind = "resp" /\ x.ans.StatusCode # 200
        \/ x.ans.kind = "resp" /\ x.ans.Body.doc.shape = "garbage"
        \/ x.ans.kind = "resp" /\ Field(x.ans.Body.doc, "nextPageToken", "") = ""

\* C24: a listing whose page request was answered with an empty
\* nextPageToken, a status other than 200 or an undecodable body goes on
\* until it returns; and it returns only after such an answer, however many
\* pages with a cursor, repeated or not, came before.
C24_ListingReturns ==
    (call.op \in {"GetMembers", "GetRoles"}) =>
        /\ (PageRequests # <<>> /\ LastPageAnswerFinal) =>
               (pg.pc = "done" \/ ENABLED ListingStep)
        /\ pg.pc = "done" =>
               (PageRequests # <<>> /\ (LastPageAnswerFinal \/ ~ret.err.nil))

\* C25: while GetMembers runs, any two of its requests, page requests and
\* lookups alike, are sent at least one interval of 200 ms apart.
C25_OneRequestPerInterval ==
    (call.op = "GetMembers") =>
        \A i, j \in DOMAIN pg.stamps :
            i < j => pg.stamps[j] - pg.stamps[i] >= Interval

\* C26: any two consecutive page requests of a listing are sent at least one
\* interval of 200 ms apart, however long the lookups of a page take.
C26_PageRequestsSpaced ==
    (call.op \in {"GetMembers", "GetRoles"}) =>
        \A i \in 1..(Len(pg.times) - 1) : pg.times[i + 1] - pg.times[i] >= Interval

\* The entries of the legacy role listing GetUserRole was answered with.
RoleEntries == Field(sent[2].ans.Body.doc, "data", <<>>)

EntriesOfGroup == {i \in DOMAIN RoleEntries : RoleEntries[i].group.id = TheGroup.ID}

\* The account lookup and the legacy role listing of GetUserRole succeeded.
RoleListingSucceeded ==
    /\ call.op = "GetUserRole" /\ Len(sent) >= 2
    /\ sent[1].ans.StatusCode = 200 /\ sent[1].ans.Body.doc.shape # "garbage"
    /\ sent[2].ans.StatusCode = 200 /\ sent[2].ans.Body.doc.shape # "garbage"

\* C27: GetUserRole returns (nil, ErrUserHasNoRole) exactly when the account
\* lookup and the role listing succeed and no entry of the listing is of the
\* group; when an entry is, it asks GetRole for the role of the first such
\* entry alone and returns what GetRole returns.
C27_FirstEntryOfGroup ==
    (call.op = "GetUserRole") =>
        /\ ret.err = ErrUserHasNoRole <=> (RoleListingSucceeded /\ EntriesOfGroup = {})
        /\ (RoleListingSucceeded /\ EntriesOfGroup = {}) =>
               (ret.val = NilValue /\ Len(sent) = 2)
        /\ (RoleListingSucceeded /\ EntriesOfGroup # {}) =>
               LET first == CHOOSE i \in EntriesOfGroup : \A j \in EntriesOfGroup : i <= j
               IN  /\ Len(sent) = 3
                   /\ sent[3].req.path = EndpointCloudGroups \o TheGroup.ID \o "/roles/"
                                             \o RoleEntries[first].role.id
                   /\ IF sent[3].ans.StatusCode = 200
                         /\ sent[3].ans.Body.doc.shape # "garbage"
                      THEN ret.err.nil /\ ret.val = DecodeRole(sent[3].ans.Body.doc)
                      ELSE ~ret.err.nil /\ ret.val = NilValue

\* The listing has an entry of another group first and two of the group.
C27_Witness ==
    /\ RoleListingSucceeded
    /\ Len(RoleEntries) = 3 /\ Cardinality(EntriesOfGroup) = 2
    /\ RoleEntries[1].group.id # TheGroup.ID
    /\ Len(sent) = 3 /\ ret.err.nil /\ ~ret.val.nil

\* The call under way is a mutation with its arguments given.
MutationCalled ==
    \/ call.op \in {"JoinRequestAccept", "JoinRequestDecline"} /\ call.arg # ""
    \/ call.op = "UpdateUserRole" /\ call.arg # "" /\ call.roleID # ""

\* The lookups a mutation makes before its mutating request.
LookupsBefore == IF call.op = "UpdateUserRole" THEN 2 ELSE 1

\* The lookup answered by exchange x succeeded.
LookupOK(x) == x.ans.StatusCode = 200 /\ x.ans.Body.doc.shape # "garbage"

\* The error of the lookup answered by exchange x.
LookupError(x) ==
    IF x.ans.StatusCode # 200 THEN httpErrorCheck(x.ans) ELSE ErrDecode

MutationPath ==
    CASE call.op = "JoinRequestAccept" ->
             EndpointCloudGroups \o TheGroup.ID \o "/join-requests/" \o call.arg \o ":accept"
      [] call.op = "JoinRequestDecline" ->
             EndpointCloudGroups \o TheGroup.ID \o "/join-requests/" \o call.arg
                 \o ":decline"
      [] call.op = "UpdateUserRole" ->
             EndpointCloudGroups \o TheGroup.ID \o "/memberships/" \o call.arg

\* C28: JoinRequestAccept, JoinRequestDecline and UpdateUserRole look the
\* user up, UpdateUserRole then the role, and only when the lookups have
\* succeeded send their one mutating request, last; a failed lookup ends the
\* call with its error and no mutating request; success is reported exactly
\* when the mutating request was answered with status 200.
C28_MutationAfterLookups ==
    MutationCalled =>
        /\ sent[1].req.method = "GET"
        /\ sent[1].req.path = EndPointCloudUsers \o call.arg
        /\ \A k \in DOMAIN sent :
               /\ k <= LookupsBefore => sent[k].req.method = "GET"
               /\ k < Len(sent) => LookupOK(sent[k])
               /\ k > LookupsBefore =>
                      /\ k = LookupsBefore + 1
                      /\ sent[k].req.method
                             = (IF call.op = "UpdateUserRole" THEN "PATCH" ELSE "POST")
                      /\ sent[k].req.path = MutationPath
        /\ (call.op = "UpdateUserRole" /\ Len(sent) >= 2) =>
               sent[2].req.path
                   = EndpointCloudGroups \o TheGroup.ID \o "/roles/" \o call.roleID
        /\ (Len(sent) <= LookupsBefore) =>
               /\ ~LookupOK(sent[Len(sent)])
               /\ ret.err = LookupError(sent[Len(sent)])
               /\ ret.val = (IF call.op = "UpdateUserRole" THEN NilValue ELSE FALSE)
        /\ (Len(sent) > LookupsBefore /\ sent[Len(sent)].ans.StatusCode = 200) =>
               /\ ret.err.nil
               /\ ret.val = (IF call.op = "UpdateUserRole"
                             THEN DecodeRole(sent[2].ans.Body.doc) ELSE TRUE)
        /\ (Len(sent) > LookupsBefore /\ sent[Len(sent)].ans.StatusCode # 200) =>
               /\ ~ret.err.nil
               /\ ret.val = (IF call.op = "UpdateUserRole" THEN NilValue ELSE FALSE)

\* UpdateUserRole after both lookups succeeded and the PATCH was answered 200.
C28_Witness ==
    /\ call.op = "UpdateUserRole" /\ Len(sent) = 3
    /\ sent[3].req.method = "PATCH" /\ sent[3].ans.StatusCode = 200
    /\ ret.err.nil /\ ret.val.ID = "5"

\* C29: GetGroupIcon returns, for every answer of the thumbnails endpoint,
\* either the image URL with a nil error or the empty string with a non-nil
\* error; a 200 answer whose data list is empty makes it return the empty
\* string with an error, and it never panics.
C29_IconOrError ==
    (call.op = "GetGroupIcon") =>
        /\ ~ret.panic
        /\ \/ ret.err.nil /\ ret.val # ""
           \/ ~ret.err.nil /\ ret.val = ""

\* The page responses of the listing under way whose bodies are open.
OpenPageBodies ==
    {i \in DOMAIN sent : /\ sent[i].req.method = "GET"
                         /\ sent[i].req.path = PageURL(call.op, TheGroup).path
                         /\ sent[i].ans.kind = "resp"
                         /\ ~sent[i].closed}

\* C30: during GetMembers and GetRoles the body of a page is closed before
\* the next page is requested: at no moment is more than one page response
\* body open, however many pages are fetched.
C30_OnePageBodyOpen ==
    (call.op \in {"GetMembers", "GetRoles"}) => Cardinality(OpenPageBodies) <= 1

====
